---- MODULE Spec2Model ----
(***************************************************************************)
(* State-machine model of the TP-Link integration of the hub:              *)
(*   homeassistant/components/tplink/__init__.py    (entry lifecycle,      *)
(*                                                   discovery, store)    *)
(*   homeassistant/components/tplink/config_flow.py (pairing / reauth)     *)
(* Every flow step handler is one action.  The vendor SDK is opaque: each  *)
(* SDK call draws its outcome with \E; the device a successful call        *)
(* returns is the one the environment (at, fw) currently has at the host.  *)
(***************************************************************************)
EXTENDS Integers, Sequences, FiniteSets, TLC

\* ------------------------------------------------------------------ bounds
MaxEntries == 2
NumInterfaces == 2
MaxTimers == 1
MaxRuns == 2
MaxSaves == 5
MaxEntities == 3
MaxMigrations == 2

\* Two sessions can be in progress at a time.
FlowIds == {1, 2}
EntryIds == 1..MaxEntries
Interfaces == 1..NumInterfaces

\* ------------------------------------------------------------- value sets
Hosts == {"h1", "h2"}
HW == {"a", "b"}
Styles == {"lc", "uc", "bare"}
RawMacs == HW \X Styles
Creds == {"c1", "c2"}
NoCreds == "none"
NoHost == "none"
NoId == <<"none", "lc">>
NoInput == "none"

\* dr.format_mac: every recognised notation of a hardware address becomes
\* the lower-case colon-separated one.
format_mac(mac) == <<mac[1], "lc">>

\* The notation in which a discovery source reports each address.
DiscoveryMacs == {<<"a", "bare">>, <<"b", "uc">>}

VARIABLES
    entries,  \* the ConfigRecords of the family, by entry id
    coord,    \* hass.data[DOMAIN]: the coordinator published per entry
    store,    \* the CredentialStore slot
    flows,    \* the flows in progress (the flow objects), by flow id
    timers,   \* the pending async_call_later callbacks
    last,     \* what the handler that ran last did and returned
    net,      \* the devices answering a broadcast, per interface
    disc,     \* the run of async_discover_devices in progress
    fw,       \* what each device currently reports as type and parameters
    at,       \* the hardware currently reachable at each host
    registry, \* the entity registry: the entities in the order they were added
    ring      \* the Ring config entry: version, minor version, migrations run

vars == <<entries, coord, store, flows, timers, last, net, disc, fw, at,
         registry, ring>>

\* ---------------------------------------------------------- SDK devices
NoDev == [host |-> NoHost, mac |-> <<"none", "lc">>, device_type |-> "none",
          connection_parameters |-> "none"]

\* The notation in which the SDK reports each device's address.
SdkMacOf(hw) == IF hw = "a" THEN <<hw, "uc">> ELSE <<hw, "lc">>

\* The device handle the SDK returns for hardware hw reached at host h.
SdkDevice(h, hw) == [host |-> h, mac |-> SdkMacOf(hw),
                     device_type |-> fw[hw].device_type,
                     connection_parameters |-> fw[hw].connection_parameters]

\* The device handle a successful SDK call to host h returns.
DeviceAt(h) == SdkDevice(h, at[h])

\* Outcomes of SmartDevice.connect and SmartDevice.update.
ConnectOutcomes == {"ok", "auth", "other"}
\* Outcomes of Discover.discover_single (it authenticates nothing).
DiscoverOutcomes == {"ok", "other"}

\* ------------------------------------------------------------ records
\* No Ring entry is configured.
\* The ids of the Ring entries (entry 1 is the one that is migrated) and the
\* hardware addresses of the Ring devices.
RingEntryIds == {1, 2}
RingMacs == {"m1", "m2"}

NoRingEntry == [username |-> "none", token |-> "none"]

\* A Ring flow object: its step, its unique id, the username and password
\* kept for the 2fa step, the entry a reauth flow is about.
NoRingFlow == [status |-> "none", source |-> "none", step |-> "none",
               unique_id |-> "none", user_pass |-> [username |-> "none",
                                                    password |-> "none"],
               reauth_entry |-> 0]

\* No Ring entry is configured: no entry to migrate, no account entry, no
\* Ring device in the device registry, no flow in progress.
NoRing == [version |-> 0, minor_version |-> 0, migrations |-> 0,
           config_entries |-> [e \in RingEntryIds |-> NoRingEntry],
           device_registry |-> [m \in RingMacs |-> 0],
           flows |-> [f \in FlowIds |-> NoRingFlow]]

\* ConfigEntryState SETUP_RETRY and SETUP_ERROR are both "not_loaded" here;
\* the signal of the failed setup is in last.signal.
NoEntry == [unique_id |-> NoId, host |-> NoHost, device_type |-> "none",
            connection_params |-> "none", state |-> "absent"]

NoCoord == [mac |-> <<"none", "lc">>, closed |-> FALSE, present |-> FALSE]

NoFlow == [status |-> "none", source |-> "none", step |-> "none",
           unique_id |-> NoId, host |-> NoHost, device |-> NoDev,
           last_failed |-> NoCreds, reauth_entry |-> 0,
           discovered |-> [k \in {} |-> NoDev], offered |-> {}]

NoLast == [op |-> "init", flow |-> 0, entry |-> 0, input |-> "none",
           discovery |-> [host |-> NoHost, mac |-> NoId], calls |-> <<>>,
           found |-> {}, result |-> "none", finalize |-> "none",
           step |-> "none", reason |-> "none", error |-> "none",
           saved |-> <<>>, reloads |-> <<>>, scheduled |-> 0, created |-> 0,
           signal |-> "none", forwarded |-> FALSE, mismatch |-> FALSE]

\* self._async_current_entries()
CurrentEntries == {e \in EntryIds : entries[e].state # "absent"}

\* self._async_in_progress(): the other flows of the handler in progress
InProgress(f) == {g \in FlowIds : g # f /\ flows[g].status = "active"}

\* entry.async_get_active_flows(hass, {SOURCE_REAUTH})
ActiveReauthFlows(fl, e) ==
    {g \in FlowIds : fl[g].status = "active" /\ fl[g].source = "reauth"
                     /\ fl[g].reauth_entry = e}

FreeFlow(f) == /\ flows[f].status = "none"
               /\ \A g \in FlowIds : g < f => flows[g].status # "none"

\* One SDK call: what was called, with which credentials (by: the "stored"
\* ones or the user's "input"), and how it ended.
Call(fn, h, c, by, o) == [fn |-> fn, host |-> h, creds |-> c, by |-> by, out |-> o]

\* ------------------------------------------------- CredentialStore (slot)
\* The two fields of each Credentials object, and kasa.Credentials(u, p).
Username(c) == IF c = "c1" THEN "user1" ELSE "user2"
Password(c) == IF c = "c1" THEN "pw1" ELSE "pw2"
Credentials(username, password) ==
    CHOOSE c \in Creds : Username(c) = username /\ Password(c) = password

\* What Store.async_load returns when nothing was saved or the store was
\* removed (None).
NoStorage == <<>>

\* set_stored_credentials keeping what the slot already holds.
KeepFirstSaved(st, username, password) ==
    IF DOMAIN st # {} THEN st
    ELSE [authentication |-> [username |-> username, password |-> password]]

\* get_stored_credentials: Credentials of the saved username and password,
\* or None when the loaded data or its "authentication" item is empty.
get_stored_credentials(st) ==
    IF DOMAIN st # {} /\ DOMAIN st.authentication # {}
    THEN Credentials(st.authentication.username, st.authentication.password)
    ELSE NoCreds

\* set_stored_credentials: the slot is overwritten with the given pair.
set_stored_credentials(st, username, password) ==
    [authentication |-> [username |-> username, password |-> password]]

\* The slot after saving the fields of Credentials c.
StorageOf(c) == set_stored_credentials(NoStorage, Username(c), Password(c))

\* --------------------------------------------------- EntryLifecycleManager
\* The except clauses with every SDK failure taken as "not ready".
SetupFailureNotReady(ent, o) ==
    [entry |-> ent, publish |-> FALSE, forwarded |-> FALSE, signal |-> "not_ready",
     mismatch |-> FALSE]

\* The except clauses of async_setup_entry: AuthenticationException raises
\* ConfigEntryAuthFailed, any other SmartDeviceException ConfigEntryNotReady.
SetupFailure(ent, o) ==
    [entry |-> ent, publish |-> FALSE, forwarded |-> FALSE,
     signal |-> IF o = "auth" THEN "auth_failed" ELSE "not_ready", mismatch |-> FALSE]

\* async_setup_entry on record ent, the connect ending with outcome o and,
\* when o = "ok", returning device d.  The two patches of the record come
\* before the comparison of the observed address with the unique key.
async_setup_entry(ent, o, d) ==
    IF o # "ok" THEN SetupFailure(ent, o)
    ELSE
        LET e1 == IF ent.device_type # d.device_type
                  THEN [ent EXCEPT !.device_type = d.device_type] ELSE ent
            e2 == IF e1.connection_params # "none"
                     /\ e1.connection_params # d.connection_parameters
                  THEN [e1 EXCEPT !.connection_params = d.connection_parameters]
                  ELSE e1
        IN  IF format_mac(d.mac) # ent.unique_id THEN
                [entry |-> e2, publish |-> FALSE,
                 forwarded |-> FALSE, signal |-> "not_ready", mismatch |-> TRUE]
            ELSE
                [entry |-> [e2 EXCEPT !.state = "loaded"], publish |-> TRUE,
                 forwarded |-> TRUE, signal |-> "ok", mismatch |-> FALSE]

\* The records, runtime table and store after setting up entry e.
SetupIn(w, e, o, d) ==
    LET r == async_setup_entry(w.entries[e], o, d)
    IN  [entries |-> [w.entries EXCEPT ![e] = r.entry],
         coord |-> IF r.publish
                   THEN [w.coord EXCEPT ![e] = [mac |-> d.mac, closed |-> FALSE,
                                                present |-> TRUE]]
                   ELSE w.coord,
         store |-> w.store]

\* async_unload_entry closing the device only when the platforms unloaded.
CloseWhenUnloaded(w, e, uok) ==
    [entries |-> [w.entries EXCEPT ![e].state =
                     IF uok THEN "not_loaded" ELSE "failed_unload"],
     coord |-> [w.coord EXCEPT ![e] = IF uok THEN NoCoord ELSE @],
     calls |-> IF uok THEN <<Call("close", w.entries[e].host, NoCreds, "none", "ok")>>
               ELSE <<>>,
     store |-> IF Cardinality({x \in EntryIds : w.entries[x].state # "absent"}) = 1
               THEN NoStorage ELSE w.store]

\* async_unload_entry (called by the platform for a LOADED entry only); uok
\* is the result of unloading the platforms.
async_unload_entry(w, e, uok) ==
    [entries |-> [w.entries EXCEPT ![e].state =
                     IF uok THEN "not_loaded" ELSE "failed_unload"],
     coord |-> [w.coord EXCEPT ![e] =
                     IF uok THEN NoCoord ELSE [@ EXCEPT !.closed = TRUE]],
     calls |-> <<Call("close", w.entries[e].host, NoCreds, "none", "ok")>>,
     store |-> IF Cardinality({x \in EntryIds : w.entries[x].state # "absent"}) = 1
               THEN NoStorage ELSE w.store]

\* ConfigEntry.async_unload: only a LOADED entry reaches async_unload_entry.
UnloadIn(w, e, uok) ==
    IF w.entries[e].state = "loaded" THEN async_unload_entry(w, e, uok) ELSE w

\* hass.config_entries.async_reload: unload, then set up again unless the
\* unload failed.
ReloadIn(w, e, uok, o, d) ==
    LET u == UnloadIn(w, e, uok)
    IN  IF u.entries[e].state = "not_loaded" THEN SetupIn(u, e, o, d) ELSE u

World == [entries |-> entries, coord |-> coord, store |-> store]

SetupEntry(e) ==
    /\ entries[e].state = "not_loaded"
    /\ \E o \in ConnectOutcomes :
         LET d == DeviceAt(entries[e].host)
             w == SetupIn(World, e, o, d)
             r == async_setup_entry(entries[e], o, d)
         IN  /\ entries' = w.entries
             /\ coord' = w.coord
             /\ store' = w.store
             /\ last' = [NoLast EXCEPT !.op = "setup_entry", !.entry = e,
                            !.calls = <<Call("connect", entries[e].host,
                                             get_stored_credentials(store),
                                             "stored", o)>>,
                            !.signal = r.signal, !.forwarded = r.forwarded,
                            !.mismatch = r.mismatch]
    /\ UNCHANGED <<flows, timers, net, disc, fw, at, registry, ring>>

UnloadEntry(e, uok) ==
    /\ entries[e].state = "loaded"
    /\ LET w == UnloadIn(World, e, uok)
       IN  /\ entries' = w.entries
           /\ coord' = w.coord
           /\ store' = w.store
           /\ last' = [NoLast EXCEPT !.op = "unload_entry", !.entry = e,
                          !.calls = w.calls,
                          !.signal = IF uok THEN "ok" ELSE "failed"]
    /\ UNCHANGED <<flows, timers, net, disc, fw, at, registry, ring>>

\* The device at a host is replaced by another one (a DHCP lease moved).
LeaseChange ==
    /\ \E h1, h2 \in Hosts :
         /\ h1 # h2
         /\ at' = [at EXCEPT ![h1] = at[h2], ![h2] = at[h1]]
    /\ UNCHANGED <<entries, coord, store, flows, timers, last, net, disc, fw, registry, ring>>

DeviceTypes == {"plug", "bulb"}
ConnParams == {"none", "p1", "p2"}

\* A device reports another type or other connection parameters.
FirmwareChange(hw) ==
    /\ \E t \in DeviceTypes, p \in ConnParams :
         /\ [device_type |-> t, connection_parameters |-> p] # fw[hw]
         /\ fw' = [fw EXCEPT ![hw] = [device_type |-> t, connection_parameters |-> p]]
    /\ UNCHANGED <<entries, coord, store, flows, timers, last, net, disc, at, registry, ring>>

\* ------------------------------------------------------------ PairingFlow
\* The running handler: its flow object fr, the persisted world w as changed
\* so far, the pending timers tm and what it did (SDK calls, saves, reloads).
Cx0(op, f, fr, input) ==
    [op |-> op, f |-> f, fr |-> fr, w |-> World, tm |-> timers, input |-> input,
     discovery |-> [host |-> NoHost, mac |-> NoId],
     calls |-> <<>>, saved |-> <<>>, reloads |-> <<>>, scheduled |-> 0,
     finalize |-> "none"]

Called(cx, fn, h, c, by, o) ==
    [cx EXCEPT !.calls = Append(@, Call(fn, h, c, by, o))]

LastOf(cx, result, step, reason, error, created) ==
    [NoLast EXCEPT !.op = cx.op, !.flow = cx.f, !.entry = cx.fr.reauth_entry,
                   !.input = cx.input, !.discovery = cx.discovery,
                   !.found = DOMAIN cx.fr.discovered,
                   !.finalize = cx.finalize, !.calls = cx.calls, !.result = result, !.step = step,
                   !.reason = reason, !.error = error, !.saved = cx.saved,
                   !.reloads = cx.reloads, !.scheduled = cx.scheduled,
                   !.created = created]

\* A finished flow is discarded; the timers it scheduled outlive it.
Orphaned(tm, F) ==
    {IF t.owner \in F THEN [t EXCEPT !.owner = 0] ELSE t : t \in tm}

Effects(cx) ==
    /\ Cardinality(cx.tm) <= MaxTimers
    /\ coord' = cx.w.coord
    /\ store' = cx.w.store
    /\ UNCHANGED <<net, disc, fw, at, registry, ring>>

\* self.async_show_form(step_id=step, errors={"base": error})
ShowForm(cx, step, error) ==
    /\ flows' = [flows EXCEPT ![cx.f] = [cx.fr EXCEPT !.status = "active",
                                                       !.step = step]]
    /\ entries' = cx.w.entries
    /\ timers' = cx.tm
    /\ Effects(cx)
    /\ last' = LastOf(cx, "form", step, "none", error, 0)

\* self.async_abort(reason=reason), or AbortFlow(reason) raised by a helper
Abort(cx, reason) ==
    /\ flows' = [flows EXCEPT ![cx.f] = NoFlow]
    /\ entries' = cx.w.entries
    /\ timers' = Orphaned(cx.tm, {cx.f})
    /\ Effects(cx)
    /\ last' = LastOf(cx, "abort", "none", reason, "none", 0)

\* An exception that no except clause of the step catches.
Raise(cx) ==
    /\ flows' = IF flows[cx.f].status = "none" THEN flows
                ELSE [flows EXCEPT ![cx.f] = [cx.fr EXCEPT !.status = "active",
                                                          !.step = flows[cx.f].step]]
    /\ entries' = cx.w.entries
    /\ timers' = cx.tm
    /\ Effects(cx)
    /\ last' = LastOf(cx, "raise", "none", "none", "none", 0)

\* An assert statement of the step fails: AssertionError leaves the step.
AssertionFailed(cx) ==
    /\ flows' = IF flows[cx.f].status = "none" THEN flows
                ELSE [flows EXCEPT ![cx.f] = [cx.fr EXCEPT !.status = "active",
                                                          !.step = flows[cx.f].step]]
    /\ entries' = cx.w.entries
    /\ timers' = cx.tm
    /\ Effects(cx)
    /\ last' = LastOf(cx, "raise", "none", "none", "AssertionError", 0)

\* self.async_create_entry(data=...): the platform persists a new record.
CreateEntry(cx, ent) ==
    LET free == {e \in EntryIds : cx.w.entries[e].state = "absent"}
    IN  /\ free # {}
        /\ LET id == CHOOSE e \in free : \A x \in free : e <= x
           IN  /\ entries' = [cx.w.entries EXCEPT ![id] = ent]
               /\ last' = LastOf(cx, "create_entry", "none", "none", "none", id)
        /\ flows' = [flows EXCEPT ![cx.f] = NoFlow]
        /\ timers' = Orphaned(cx.tm, {cx.f})
        /\ Effects(cx)

\* The records whose unique key is the flow's unique id.
UidConfigured(cx) ==
    {e \in EntryIds : /\ cx.w.entries[e].state # "absent"
                      /\ cx.fr.unique_id # NoId
                      /\ cx.w.entries[e].unique_id = cx.fr.unique_id}

\* The records whose data match {CONF_HOST: host}.
HostConfigured(cx, host) ==
    {e \in EntryIds : cx.w.entries[e].state # "absent" /\ cx.w.entries[e].host = host}

\* self._abort_if_unique_id_configured(updates={CONF_HOST: host}), taken when
\* UidConfigured(cx) is not empty: the record's host is updated, the flow
\* aborts.
AbortUidConfigured(cx, host) ==
    LET e == CHOOSE x \in UidConfigured(cx) : \A y \in UidConfigured(cx) : x <= y
    IN  Abort([cx EXCEPT !.w.entries[e].host = host], "already_configured")

\* _async_create_entry_from_device without its check of the unique key.
CreateWithoutKeyCheck(cx, device) ==
    CreateEntry([cx EXCEPT !.finalize = IF UidConfigured(cx) # {} THEN "configured"
                                        ELSE "free"],
                [unique_id |-> cx.fr.unique_id, host |-> device.host,
                 device_type |-> device.device_type,
                 connection_params |-> device.connection_parameters,
                 state |-> "not_loaded"])

\* _async_create_entry_from_device persisting a record before it aborts on a
\* configured unique key.
PersistThenAbort(cx, device) ==
    LET ent == [unique_id |-> cx.fr.unique_id, host |-> device.host,
                device_type |-> device.device_type,
                connection_params |-> device.connection_parameters,
                state |-> "not_loaded"]
        free == {e \in EntryIds : cx.w.entries[e].state = "absent"}
    IN  IF UidConfigured(cx) # {} /\ free # {} THEN
            /\ entries' = [cx.w.entries EXCEPT ![CHOOSE e \in free : TRUE] = ent]
            /\ flows' = [flows EXCEPT ![cx.f] = NoFlow]
            /\ timers' = Orphaned(cx.tm, {cx.f})
            /\ Effects(cx)
            /\ last' = LastOf([cx EXCEPT !.finalize = "configured"], "abort", "none",
                              "already_configured", "none", 0)
        ELSE IF UidConfigured(cx) # {}
        THEN AbortUidConfigured([cx EXCEPT !.finalize = "configured"], device.host)
        ELSE CreateEntry([cx EXCEPT !.finalize = "free"], ent)

\* _async_create_entry_from_device refreshing the whole data of the record
\* of a configured unique key before it aborts.
UpdateInPlace(cx, device) ==
    IF UidConfigured(cx) # {}
    THEN LET e == CHOOSE x \in UidConfigured(cx) : TRUE
         IN  AbortUidConfigured(
                 [cx EXCEPT !.finalize = "configured",
                            !.w.entries[e].device_type = device.device_type,
                            !.w.entries[e].connection_params =
                                device.connection_parameters],
                 device.host)
    ELSE CreateEntry([cx EXCEPT !.finalize = "free"], [unique_id |-> cx.fr.unique_id, host |-> device.host,
                          device_type |-> device.device_type,
                          connection_params |-> device.connection_parameters,
                          state |-> "not_loaded"])

\* ConfigFlow._async_create_entry_from_device
_async_create_entry_from_device(cx, device) ==
    IF UidConfigured(cx) # {}
    THEN AbortUidConfigured([cx EXCEPT !.finalize = "configured"], device.host)
    ELSE CreateEntry([cx EXCEPT !.finalize = "free"], [unique_id |-> cx.fr.unique_id, host |-> device.host,
                          device_type |-> device.device_type,
                          connection_params |-> device.connection_parameters,
                          state |-> "not_loaded"])

\* _async_try_discover_connect raising the error of device.update() instead
\* of returning it with the device.
TryDiscoverConnectRaises(cx, host, creds, raise_on_progress) ==
    IF HostConfigured(cx, host) # {}
    THEN {[kind |-> "abort", reason |-> "already_configured", cx |-> cx, device |-> NoDev]}
    ELSE LET by == IF cx.op = "user_auth_confirm" THEN "input" ELSE "stored"
             d == DeviceAt(host)
             uid == format_mac(d.mac)
             After(o1) ==
                 LET c1 == Called(cx, "discover_single", host, creds, by, o1)
                 IN  IF o1 = "other"
                     THEN {[kind |-> "no_device", reason |-> "none", cx |-> c1,
                            device |-> NoDev]}
                     ELSE IF raise_on_progress
                             /\ \E g \in InProgress(cx.f) : flows[g].unique_id = uid
                     THEN {[kind |-> "abort", reason |-> "already_in_progress",
                            cx |-> c1, device |-> NoDev]}
                     ELSE {[kind |-> o2, reason |-> "none",
                            cx |-> Called([c1 EXCEPT !.fr.unique_id = uid],
                                          "update", host, creds, by, o2),
                            device |-> IF o2 = "ok" THEN d ELSE NoDev] :
                              o2 \in ConnectOutcomes}
         IN  UNION {After(o1) : o1 \in DiscoverOutcomes}

\* ConfigFlow._async_try_discover_connect: the ways the call can end.  Kind
\* "abort" is an AbortFlow raised by a platform helper, "no_device" an SDK
\* error raised by discover_single; "ok", "auth" and "other" are the returned
\* (device, error) pairs, by the outcome of device.update().
_async_try_discover_connect(cx, host, creds, raise_on_progress) ==
    IF HostConfigured(cx, host) # {}
    THEN {[kind |-> "abort", reason |-> "already_configured", cx |-> cx, device |-> NoDev]}
    ELSE LET by == IF cx.op = "user_auth_confirm" THEN "input" ELSE "stored"
             d == DeviceAt(host)
             uid == format_mac(d.mac)
             After(o1) ==
                 LET c1 == Called(cx, "discover_single", host, creds, by, o1)
                 IN  IF o1 = "other"
                     THEN {[kind |-> "no_device", reason |-> "none", cx |-> c1,
                            device |-> NoDev]}
                     ELSE IF raise_on_progress
                             /\ \E g \in InProgress(cx.f) : flows[g].unique_id = uid
                     THEN {[kind |-> "abort", reason |-> "already_in_progress",
                            cx |-> c1, device |-> NoDev]}
                     ELSE {[kind |-> o2, reason |-> "none",
                            cx |-> Called([c1 EXCEPT !.fr.unique_id = uid],
                                          "update", host, creds, by, o2),
                            device |-> d] : o2 \in ConnectOutcomes}
         IN  UNION {After(o1) : o1 \in DiscoverOutcomes}

\* async_call_later(hass, 0.5, self._async_reload_requires_auth_entries)
Scheduled(cx) ==
    [cx EXCEPT !.tm = @ \cup {[owner |-> cx.f, reauth_entry |-> cx.fr.reauth_entry]},
               !.scheduled = @ + 1]

\* await set_stored_credentials(hass, username, password)
Saved(cx, c) ==
    [cx EXCEPT !.w.store = set_stored_credentials(@, Username(c), Password(c)),
               !.saved = Append(@, c)]

\* The confirmation step connecting to the device again before it finishes.
ConfirmReconnects(cx, user_input) ==
    IF cx.fr.device = NoDev THEN AssertionFailed(cx)
    ELSE IF user_input # NoInput
    THEN _async_create_entry_from_device(
             Called(cx, "connect", cx.fr.host, get_stored_credentials(cx.w.store),
                    "stored", "ok"),
             cx.fr.device)
    ELSE ShowForm(cx, "discovery_confirm", "none")

\* The confirmation step finishing the flow without asking.
ConfirmWithoutForm(cx, user_input) ==
    IF cx.fr.device = NoDev THEN AssertionFailed(cx)
    ELSE _async_create_entry_from_device(cx, cx.fr.device)

\* ConfigFlow.async_step_discovery_confirm
async_step_discovery_confirm(cx, user_input) ==
    IF cx.fr.device = NoDev THEN AssertionFailed(cx)
    ELSE IF user_input # NoInput THEN _async_create_entry_from_device(cx, cx.fr.device)
    ELSE ShowForm(cx, "discovery_confirm", "none")

\* The stored credentials tried whatever failed before.
AlwaysTryStored(credentials, last_failed) == TRUE

\* Whether discovery_auth_confirm first tries the stored credentials.
TryStored(credentials, last_failed) == credentials # last_failed

\* ConfigFlow.async_step_discovery_auth_confirm, from "if user_input:" on
DiscoveryAuthSubmit(cx, user_input) ==
    IF user_input # NoInput THEN
        \E o \in ConnectOutcomes :
          LET c1 == Called(cx, "connect", cx.fr.host, user_input, "input", o)
          IN  CASE o = "auth" -> ShowForm(c1, "discovery_auth_confirm", "invalid_auth")
                [] o = "other" -> Abort(c1, "cannot_connect")
                [] o = "ok" ->
                     async_step_discovery_confirm(
                         Scheduled(Saved([c1 EXCEPT !.fr.device = DeviceAt(cx.fr.host)],
                                         user_input)),
                         NoInput)
    ELSE ShowForm(cx, "discovery_auth_confirm", "none")

\* ConfigFlow.async_step_discovery_auth_confirm
async_step_discovery_auth_confirm(cx, user_input) ==
    IF cx.fr.device = NoDev THEN AssertionFailed(cx)
    ELSE LET credentials == get_stored_credentials(cx.w.store)
         IN  IF TryStored(credentials, cx.fr.last_failed) THEN
                 \E o \in ConnectOutcomes :
                   LET c1 == Called(cx, "connect", cx.fr.host, credentials, "stored", o)
                   IN  CASE o = "auth" -> DiscoveryAuthSubmit(c1, user_input)
                         [] o = "other" -> Raise(c1)
                         [] o = "ok" ->
                              async_step_discovery_confirm(
                                  [c1 EXCEPT !.fr.device = DeviceAt(cx.fr.host)],
                                  NoInput)
             ELSE DiscoveryAuthSubmit(cx, user_input)

\* ------------------------------------------------------- DeviceDiscoverer
\* What one broadcast can return: devices with distinct hosts and distinct
\* hardware addresses.
AllDevices == {SdkDevice(h, hw) : h \in Hosts, hw \in HW}
DeviceLists ==
    {S \in SUBSET AllDevices :
        \A x, y \in S : (x.host = y.host \/ x.mac = y.mac) => x = y}
Networks == [Interfaces -> DeviceLists]

\* The dict a device list is merged from, keyed by dr.format_mac(device.mac)
DictOf(S) ==
    [k \in {format_mac(d.mac) : d \in S} |-> CHOOSE d \in S : format_mac(d.mac) = k]

\* discovered_devices[dr.format_mac(device.mac)] = device, list after list
RECURSIVE MergeLists(_, _)
MergeLists(lists, acc) ==
    IF lists = <<>> THEN acc
    ELSE MergeLists(Tail(lists), DictOf(Head(lists)) @@ acc)

\* The results in the order in which the broadcasts finished.
GatherAsCompleted(resp, completed) == [i \in 1..Len(completed) |-> resp[completed[i]]]

\* await asyncio.gather(*tasks): the results in the order of the tasks,
\* whatever the order `completed` in which the broadcasts finished.
gather(resp, completed) == [i \in 1..Len(completed) |-> resp[i]]

\* async_discover_devices
async_discover_devices(resp, completed) ==
    MergeLists(gather(resp, completed), [k \in {} |-> NoDev])

\* The networks a pick-device broadcast is drawn from: the devices now at
\* the hosts all answer on the first interface, or none does.
PickNetworks ==
    {n \in Networks : /\ n[1] \in {{}, {DeviceAt(h) : h \in Hosts}}
                      /\ \A i \in Interfaces : i > 1 => n[i] = {}}

TaskOrder == [i \in Interfaces |-> i]

\* ------------------------------------------------------------ flow steps
\* The scan of the sessions in progress left out.
NoHostScan(f, host) == FALSE

\* The scan of _async_handle_discovery: another flow in progress has host as
\* its context host.
HostInProgress(f, host) == \E g \in InProgress(f) : flows[g].host = host

\* The abort on a configured unique key that passes no updates.
AbortWithoutUpdates(cx, host) == Abort(cx, "already_configured")

\* self._abort_if_unique_id_configured(updates={CONF_HOST: host}) as
\* _async_handle_discovery calls it.
AbortWithHostUpdate(cx, host) == AbortUidConfigured(cx, host)

\* ConfigFlow._async_handle_discovery (async_step_dhcp and
\* async_step_integration_discovery)
_async_handle_discovery(f, host, mac) ==
    /\ FreeFlow(f)
    /\ LET uid == format_mac(mac)
           c0 == [Cx0("handle_discovery", f, [NoFlow EXCEPT !.source = "discovery"],
                      NoInput) EXCEPT !.discovery = [host |-> host, mac |-> mac]]
           c1 == [c0 EXCEPT !.fr.unique_id = uid]
           c2 == [c1 EXCEPT !.fr.host = host]
           credentials == get_stored_credentials(store)
       IN  IF \E g \in InProgress(f) : flows[g].unique_id = uid
           THEN Abort(c0, "already_in_progress")
           ELSE IF UidConfigured(c1) # {} THEN AbortWithHostUpdate(c1, host)
           ELSE IF HostConfigured(c1, host) # {} THEN Abort(c1, "already_configured")
           ELSE IF HostInProgress(f, host) THEN Abort(c2, "already_in_progress")
           ELSE \E r \in _async_try_discover_connect(c2, host, credentials, TRUE) :
                  CASE r.kind = "abort" -> Abort(r.cx, r.reason)
                    [] r.kind = "no_device" -> Abort(r.cx, "cannot_connect")
                    [] r.kind = "ok" ->
                         async_step_discovery_confirm(
                             [r.cx EXCEPT !.fr.device = r.device], NoInput)
                    [] r.kind = "auth" ->
                         async_step_discovery_auth_confirm(
                             [r.cx EXCEPT !.fr.device = r.device,
                                          !.fr.last_failed = credentials], NoInput)
                    [] r.kind = "other" ->
                         Abort([r.cx EXCEPT !.fr.device = r.device], "cannot_connect")

StepDiscoveryAuthConfirm(f, user_input) ==
    /\ flows[f].status = "active" /\ flows[f].step = "discovery_auth_confirm"
    /\ async_step_discovery_auth_confirm(
           Cx0("discovery_auth_confirm", f, flows[f], user_input), user_input)

StepDiscoveryConfirm(f) ==
    /\ flows[f].status = "active" /\ flows[f].step = "discovery_confirm"
    /\ async_step_discovery_confirm(Cx0("discovery_confirm", f, flows[f], NoInput),
                                    "confirm")

\* The user auth step saving the submitted credentials before it connects.
SaveBeforeConnect(cx, user_input) ==
    IF user_input # NoInput THEN
        \E r \in _async_try_discover_connect(Saved(cx, user_input), cx.fr.host,
                                             user_input, FALSE) :
          CASE r.kind = "abort" -> Abort(r.cx, r.reason)
            [] r.kind = "ok" -> _async_create_entry_from_device(Scheduled(r.cx), r.device)
            [] r.kind = "auth" -> ShowForm(r.cx, "user_auth_confirm", "invalid_auth")
            [] r.kind \in {"other", "no_device"} ->
                 ShowForm(r.cx, "user_auth_confirm", "cannot_connect")
    ELSE ShowForm(cx, "user_auth_confirm", "none")

\* ConfigFlow.async_step_user_auth_confirm
async_step_user_auth_confirm(cx, user_input) ==
    IF user_input # NoInput THEN
        \E r \in _async_try_discover_connect(cx, cx.fr.host, user_input, FALSE) :
          CASE r.kind = "abort" -> Abort(r.cx, r.reason)
            [] r.kind = "ok" -> _async_create_entry_from_device(
                                    Scheduled(Saved(r.cx, user_input)), r.device)
            [] r.kind = "auth" -> ShowForm(r.cx, "user_auth_confirm", "invalid_auth")
            [] r.kind \in {"other", "no_device"} ->
                 ShowForm(r.cx, "user_auth_confirm", "cannot_connect")
    ELSE ShowForm(cx, "user_auth_confirm", "none")

\* The pick-device auth step aborting on an SDK error that is not an
\* authentication failure.
PickAuthAbortsOnError(cx, user_input) ==
    IF cx.fr.device = NoDev THEN AssertionFailed(cx)
    ELSE IF user_input # NoInput THEN
        \E o \in ConnectOutcomes :
          LET host == cx.fr.device.host
              c1 == Called(cx, "connect", host, user_input, "input", o)
          IN  CASE o = "auth" -> ShowForm(c1, "pick_device_auth_confirm", "invalid_auth")
                [] o = "other" -> Abort(c1, "cannot_connect")
                [] o = "ok" -> _async_create_entry_from_device(
                                   Scheduled(Saved(c1, user_input)), DeviceAt(host))
    ELSE ShowForm(cx, "pick_device_auth_confirm", "none")

\* ConfigFlow.async_step_pick_device_auth_confirm
async_step_pick_device_auth_confirm(cx, user_input) ==
    IF cx.fr.device = NoDev THEN AssertionFailed(cx)
    ELSE IF user_input # NoInput THEN
        \E o \in ConnectOutcomes :
          LET host == cx.fr.device.host
              c1 == Called(cx, "connect", host, user_input, "input", o)
          IN  CASE o = "auth" -> ShowForm(c1, "pick_device_auth_confirm", "invalid_auth")
                [] o = "other" -> ShowForm(c1, "pick_device_auth_confirm", "cannot_connect")
                [] o = "ok" -> _async_create_entry_from_device(
                                   Scheduled(Saved(c1, user_input)), DeviceAt(host))
    ELSE ShowForm(cx, "pick_device_auth_confirm", "none")

\* Every discovered device offered.
AllFound(found, configured_devices) == DOMAIN found

\* The keys of devices_name in async_step_pick_device: the discovered
\* addresses that are not in configured_devices.
devices_name(found, configured_devices) == (DOMAIN found) \ configured_devices

\* ConfigFlow.async_step_pick_device; user_input is the chosen key, NoId
\* when the step is entered from async_step_user.
async_step_pick_device(cx, user_input) ==
    IF user_input # NoId THEN
        \E o \in ConnectOutcomes :
          LET mac == user_input
              device == cx.fr.discovered[mac]
              c1 == Called([cx EXCEPT !.fr.unique_id = mac, !.fr.device = device],
                           "update", device.host, NoCreds, "stored", o)
          IN  CASE o = "auth" -> async_step_pick_device_auth_confirm(c1, NoInput)
                [] o = "other" -> Abort(c1, "cannot_connect")
                [] o = "ok" -> _async_create_entry_from_device(c1, device)
    ELSE
        LET configured_devices == {cx.w.entries[e].unique_id : e \in CurrentEntries}
        IN  \E resp \in PickNetworks :
              LET found == async_discover_devices(resp, TaskOrder)
                  c1 == Called([cx EXCEPT !.fr.discovered = found],
                               "discover", "broadcast", get_stored_credentials(store),
                               "stored", "ok")
                  offered == devices_name(found, configured_devices)
              IN  IF offered = {} THEN Abort(c1, "no_devices_found")
                  ELSE ShowForm([c1 EXCEPT !.fr.offered = offered],
                                "pick_device", "none")

\* The host entry step aborting on a connect error that is not an
\* authentication failure.
UserAbortsOnError(cx, user_input) ==
    IF user_input # NoInput THEN
        IF user_input = "" THEN async_step_pick_device(cx, NoId)
        ELSE LET host == user_input
                 credentials == get_stored_credentials(cx.w.store)
             IN  \E r \in _async_try_discover_connect([cx EXCEPT !.fr.host = host],
                                                      host, credentials, FALSE) :
                   CASE r.kind = "abort" -> Abort(r.cx, r.reason)
                     [] r.kind = "ok" -> _async_create_entry_from_device(r.cx, r.device)
                     [] r.kind = "auth" -> async_step_user_auth_confirm(r.cx, NoInput)
                     [] r.kind \in {"other", "no_device"} ->
                          Abort(r.cx, "cannot_connect")
    ELSE ShowForm(cx, "user", "none")

\* ConfigFlow.async_step_user; user_input is the host entered ("" when left
\* blank), NoInput when the flow starts.
async_step_user(cx, user_input) ==
    IF user_input # NoInput THEN
        IF user_input = "" THEN async_step_pick_device(cx, NoId)
        ELSE LET host == user_input
                 credentials == get_stored_credentials(cx.w.store)
             IN  \E r \in _async_try_discover_connect([cx EXCEPT !.fr.host = host],
                                                      host, credentials, FALSE) :
                   CASE r.kind = "abort" -> Abort(r.cx, r.reason)
                     [] r.kind = "ok" -> _async_create_entry_from_device(r.cx, r.device)
                     [] r.kind = "auth" -> async_step_user_auth_confirm(r.cx, NoInput)
                     [] r.kind \in {"other", "no_device"} ->
                          ShowForm(r.cx, "user", "cannot_connect")
    ELSE ShowForm(cx, "user", "none")

StartUser(f) ==
    /\ FreeFlow(f)
    /\ async_step_user(Cx0("user", f, [NoFlow EXCEPT !.source = "user"], NoInput), NoInput)

\* The host field is left blank on the first prompt only.
StepUser(f, host) ==
    /\ flows[f].status = "active" /\ flows[f].step = "user"
    /\ host = "" => flows[f].host = NoHost
    /\ async_step_user(Cx0("user", f, flows[f], NoInput), host)

StepUserAuthConfirm(f, user_input) ==
    /\ flows[f].status = "active" /\ flows[f].step = "user_auth_confirm"
    /\ async_step_user_auth_confirm(Cx0("user_auth_confirm", f, flows[f], user_input),
                                    user_input)

StepPickDevice(f, mac) ==
    /\ flows[f].status = "active" /\ flows[f].step = "pick_device"
    /\ mac \in flows[f].offered
    /\ async_step_pick_device(Cx0("pick_device", f, flows[f], NoInput), mac)

StepPickDeviceAuthConfirm(f, user_input) ==
    /\ flows[f].status = "active" /\ flows[f].step = "pick_device_auth_confirm"
    /\ async_step_pick_device_auth_confirm(
           Cx0("pick_device_auth_confirm", f, flows[f], user_input), user_input)

\* Outcomes drawn for one reload a flow triggers: the platforms unload, the
\* connect of the following setup ends with o.
ReloadChoices == [uok : {TRUE}, o : ConnectOutcomes]

ReloadWith(w, e, c) == ReloadIn(w, e, c.uok, c.o, DeviceAt(w.entries[e].host))

\* ConfigFlow.async_step_reauth_confirm
async_step_reauth_confirm(cx, user_input) ==
    IF cx.fr.reauth_entry = 0 THEN AssertionFailed(cx)
    ELSE IF user_input # NoInput THEN
        LET target == cx.fr.reauth_entry
            host == cx.w.entries[target].host
        IN  \E o1 \in DiscoverOutcomes :
              LET c1 == Called(cx, "discover_single", host, user_input, "input", o1)
              IN  IF o1 = "other" THEN ShowForm(c1, "reauth_confirm", "unknown")
                  ELSE \E o2 \in ConnectOutcomes :
                    LET c2 == Called(c1, "update", host, user_input, "input", o2)
                    IN  CASE o2 = "auth" -> ShowForm(c2, "reauth_confirm", "invalid_auth")
                          [] o2 = "other" -> ShowForm(c2, "reauth_confirm", "unknown")
                          [] o2 = "ok" ->
                               \E c \in ReloadChoices :
                                 LET c3 == Saved(c2, user_input)
                                     c4 == [c3 EXCEPT !.w = ReloadWith(c3.w, target, c),
                                                      !.reloads = Append(@, target)]
                                 IN  Abort(Scheduled(c4), "reauth_successful")
    ELSE ShowForm(cx, "reauth_confirm", "none")

\* ConfigFlow.async_step_reauth: the platform starts a reauth flow for entry
\* e (none is active for it), which shows reauth_confirm.
async_step_reauth(f, e) ==
    /\ FreeFlow(f)
    /\ entries[e].state # "absent"
    /\ ActiveReauthFlows(flows, e) = {}
    /\ async_step_reauth_confirm(
           Cx0("reauth", f, [NoFlow EXCEPT !.source = "reauth", !.reauth_entry = e,
                                           !.unique_id = entries[e].unique_id],
               NoInput),
           NoInput)

StepReauthConfirm(f, user_input) ==
    /\ flows[f].status = "active" /\ flows[f].step = "reauth_confirm"
    /\ async_step_reauth_confirm(Cx0("reauth_confirm", f, flows[f], user_input),
                                 user_input)

\* The deferred pass with no entry left alone.
NeverSkipsTarget(reauth_entry, e) == FALSE

\* Whether the deferred pass leaves entry e alone because it is the reauth
\* target of the flow that scheduled it.
SkipsTarget(reauth_entry, e) == reauth_entry # 0 /\ e = reauth_entry

\* The reauth flow aborted whatever the state of the entry.
AlwaysLoaded(w, e) == TRUE

\* entry.state == ConfigEntryState.LOADED, after the reload of entry e
LoadedAfterReload(w, e) == w.entries[e].state = "loaded"

\* The loop reloading nothing.
NoReloadPass(es, acc, reauth_entry, ch) == acc

\* The loop of ConfigFlow._async_reload_requires_auth_entries over the
\* entries es, with the outcomes ch drawn for each reload.
RECURSIVE ReloadPass(_, _, _, _)
ReloadPass(es, acc, reauth_entry, ch) ==
    IF es = <<>> THEN acc
    ELSE LET e == Head(es)
             active == ActiveReauthFlows(acc.fl, e)
         IN  IF SkipsTarget(reauth_entry, e) \/ active = {}
             THEN ReloadPass(Tail(es), acc, reauth_entry, ch)
             ELSE LET g == CHOOSE x \in active : \A y \in active : x <= y
                      w2 == ReloadWith(acc.w, e, ch[e])
                      loaded == LoadedAfterReload(w2, e)
                  IN  ReloadPass(Tail(es),
                          [w |-> w2,
                           fl |-> IF loaded THEN [acc.fl EXCEPT ![g] = NoFlow] ELSE acc.fl,
                           gone |-> IF loaded THEN acc.gone \cup {g} ELSE acc.gone,
                           reloads |-> Append(acc.reloads, e)],
                          reauth_entry, ch)

RECURSIVE SortedSeq(_)
SortedSeq(S) ==
    IF S = {} THEN <<>>
    ELSE LET m == CHOOSE x \in S : \A y \in S : x <= y
         IN  <<m>> \o SortedSeq(S \ {m})

\* ConfigFlow._async_reload_requires_auth_entries, run by the timer t
_async_reload_requires_auth_entries(t) ==
    /\ t \in timers
    /\ \E ch \in [EntryIds -> ReloadChoices] :
         LET es == SortedSeq(CurrentEntries)
             r == ReloadPass(es, [w |-> World, fl |-> flows, gone |-> {},
                                  reloads |-> <<>>], t.reauth_entry, ch)
         IN  /\ \A e \in EntryIds :
                    (\A i \in 1..Len(r.reloads) : r.reloads[i] # e)
                        => ch[e] = [uok |-> TRUE, o |-> "other"]
             /\ entries' = r.w.entries
             /\ coord' = r.w.coord
             /\ store' = r.w.store
             /\ flows' = r.fl
             /\ timers' = Orphaned(timers \ {t}, r.gone)
             /\ last' = [NoLast EXCEPT !.op = "reload_requires_auth", !.flow = t.owner,
                            !.entry = t.reauth_entry, !.reloads = r.reloads]
    /\ UNCHANGED <<net, disc, fw, at, registry, ring>>

\* ------------------------------------ async_discover_devices, step by step
NoDisc == [pc |-> "idle", completed |-> <<>>, result |-> [k \in {} |-> NoDev],
           previous |-> [k \in {} |-> NoDev], runs |-> 0]

\* tasks = [Discover.discover(...) for address in broadcast_addresses]
DiscoverStart ==
    /\ disc.pc \in {"idle", "done"}
    /\ disc.runs < MaxRuns
    /\ disc' = [disc EXCEPT !.pc = "running", !.completed = <<>>]
    /\ UNCHANGED <<entries, coord, store, flows, timers, last, net, fw, at, registry, ring>>

\* the broadcast on interface i completes
BroadcastDone(i) ==
    /\ disc.pc = "running"
    /\ \A k \in 1..Len(disc.completed) : disc.completed[k] # i
    /\ disc' = [disc EXCEPT !.completed = Append(@, i)]
    /\ UNCHANGED <<entries, coord, store, flows, timers, last, net, fw, at, registry, ring>>

\* asyncio.gather returns and the device lists are merged
DiscoverJoin ==
    /\ disc.pc = "running"
    /\ Len(disc.completed) = NumInterfaces
    /\ disc' = [disc EXCEPT !.pc = "done", !.runs = @ + 1,
                            !.previous = disc.result,
                            !.result = async_discover_devices(net, disc.completed)]
    /\ UNCHANGED <<entries, coord, store, flows, timers, last, net, fw, at, registry, ring>>

\* ------------------------------------------------------- specifications
UniformFw == [hw \in HW |-> [device_type |-> "plug", connection_parameters |-> "p1"]]
HomeAt == [h \in Hosts |-> IF h = "h1" THEN "a" ELSE "b"]

\* The pairing flows, from an installation without records.
Init ==
    /\ entries = [e \in EntryIds |-> NoEntry]
    /\ coord = [e \in EntryIds |-> NoCoord]
    /\ store = NoStorage
    /\ flows = [f \in FlowIds |-> NoFlow]
    /\ timers = {}
    /\ last = NoLast
    /\ fw = UniformFw
    /\ at = HomeAt
    /\ net = [i \in Interfaces |-> {}]
    /\ disc = NoDisc
    /\ registry = <<>>
    /\ ring = NoRing

\* One session at a time: every flow starts in the first slot.
Next ==
    \/ \E host \in Hosts, mac \in DiscoveryMacs : _async_handle_discovery(1, host, mac)
    \/ \E f \in FlowIds, c \in Creds : StepDiscoveryAuthConfirm(f, c)
    \/ \E f \in FlowIds : StepDiscoveryConfirm(f)
    \/ StartUser(1)
    \/ \E f \in FlowIds, host \in Hosts \cup {""} : StepUser(f, host)
    \/ \E f \in FlowIds, c \in Creds : StepUserAuthConfirm(f, c)
    \/ \E f \in FlowIds, mac \in {format_mac(m) : m \in RawMacs} : StepPickDevice(f, mac)
    \/ \E f \in FlowIds, c \in Creds : StepPickDeviceAuthConfirm(f, c)
    \/ \E e \in EntryIds : async_step_reauth(1, e)
    \/ \E f \in FlowIds, c \in Creds : StepReauthConfirm(f, c)
    \/ \E t \in timers : _async_reload_requires_auth_entries(t)
    \/ \E e \in EntryIds : SetupEntry(e)
    \/ \E e \in EntryIds : UnloadEntry(e, TRUE)

Spec == Init /\ [][Next]_vars

\* async_discover_devices on a network that does not change.
InitDiscover ==
    /\ entries = [e \in EntryIds |-> NoEntry]
    /\ coord = [e \in EntryIds |-> NoCoord]
    /\ store = NoStorage
    /\ flows = [f \in FlowIds |-> NoFlow]
    /\ timers = {}
    /\ last = NoLast
    /\ fw = UniformFw
    /\ at = HomeAt
    /\ net \in Networks
    /\ disc = NoDisc
    /\ registry = <<>>
    /\ ring = NoRing

NextDiscover ==
    \/ DiscoverStart
    \/ \E i \in Interfaces : BroadcastDone(i)
    \/ DiscoverJoin

\* Two pairing sessions at a time; the records are not set up meanwhile.
NextConcurrent ==
    \/ \E f \in FlowIds, host \in Hosts, mac \in DiscoveryMacs :
          _async_handle_discovery(f, host, mac)
    \/ \E f \in FlowIds, c \in Creds : StepDiscoveryAuthConfirm(f, c)
    \/ \E f \in FlowIds : StepDiscoveryConfirm(f)
    \/ \E f \in FlowIds : StartUser(f)
    \/ \E f \in FlowIds, host \in Hosts \cup {""} : StepUser(f, host)
    \/ \E f \in FlowIds, c \in Creds : StepUserAuthConfirm(f, c)
    \/ \E f \in FlowIds, mac \in {format_mac(m) : m \in RawMacs} : StepPickDevice(f, mac)
    \/ \E f \in FlowIds, c \in Creds : StepPickDeviceAuthConfirm(f, c)
    \/ \E t \in timers : _async_reload_requires_auth_entries(t)

SpecConcurrent == Init /\ [][NextConcurrent]_vars

\* Sessions of every kind, with a passive discovery alongside another session
\* (a pairing, a reauth or another discovery); the records are set up only by
\* the reloads the flows and their timers trigger.
NextSessions ==
    \/ \E f \in FlowIds, host \in Hosts, mac \in DiscoveryMacs :
          _async_handle_discovery(f, host, mac)
    \/ \E f \in FlowIds, c \in Creds : StepDiscoveryAuthConfirm(f, c)
    \/ \E f \in FlowIds : StepDiscoveryConfirm(f)
    \/ StartUser(1)
    \/ \E f \in FlowIds, host \in Hosts \cup {""} : StepUser(f, host)
    \/ \E f \in FlowIds, c \in Creds : StepUserAuthConfirm(f, c)
    \/ \E f \in FlowIds, mac \in {format_mac(m) : m \in RawMacs} : StepPickDevice(f, mac)
    \/ \E f \in FlowIds, c \in Creds : StepPickDeviceAuthConfirm(f, c)
    \/ \E e \in EntryIds : async_step_reauth(1, e)
    \/ \E f \in FlowIds, c \in Creds : StepReauthConfirm(f, c)
    \/ \E t \in timers : _async_reload_requires_auth_entries(t)

SpecSessions == Init /\ [][NextSessions]_vars

SpecDiscover == InitDiscover /\ [][NextDiscover]_vars

\* The lifecycle of records paired earlier, some of them by a version that
\* stored neither device type nor connection parameters.
PairedRecord(hw, h, t, p) ==
    [unique_id |-> format_mac(SdkMacOf(hw)), host |-> h, device_type |-> t,
     connection_params |-> p, state |-> "not_loaded"]

InitLifecycle ==
    /\ \E t \in {"none", "plug"}, p \in {"none", "p1"}, second \in BOOLEAN :
         entries = [e \in EntryIds |->
                      IF e = 1 THEN PairedRecord("a", "h1", t, p)
                      ELSE IF e = 2 /\ second THEN PairedRecord("b", "h2", "plug", "p1")
                      ELSE NoEntry]
    /\ coord = [e \in EntryIds |-> NoCoord]
    /\ store \in {NoStorage, StorageOf("c1")}
    /\ flows = [f \in FlowIds |-> NoFlow]
    /\ timers = {}
    /\ last = NoLast
    /\ fw = UniformFw
    /\ at = HomeAt
    /\ net = [i \in Interfaces |-> {}]
    /\ disc = NoDisc
    /\ registry = <<>>
    /\ ring = NoRing

NextLifecycle ==
    \/ \E e \in EntryIds : SetupEntry(e)
    \/ \E e \in EntryIds, uok \in BOOLEAN : UnloadEntry(e, uok)
    \/ LeaseChange
    \/ \E hw \in HW : FirmwareChange(hw)

SpecLifecycle == InitLifecycle /\ [][NextLifecycle]_vars

\* Sessions of every kind, one at a time, over records paired earlier whose
\* devices may report another type or other parameters at the next setup.
NextRecords ==
    \/ \E host \in Hosts, mac \in DiscoveryMacs : _async_handle_discovery(1, host, mac)
    \/ \E c \in Creds : StepDiscoveryAuthConfirm(1, c)
    \/ StepDiscoveryConfirm(1)
    \/ StartUser(1)
    \/ \E host \in Hosts \cup {""} : StepUser(1, host)
    \/ \E c \in Creds : StepUserAuthConfirm(1, c)
    \/ \E mac \in {format_mac(m) : m \in RawMacs} : StepPickDevice(1, mac)
    \/ \E c \in Creds : StepPickDeviceAuthConfirm(1, c)
    \/ \E e \in EntryIds : async_step_reauth(1, e)
    \/ \E c \in Creds : StepReauthConfirm(1, c)
    \/ \E t \in timers : _async_reload_requires_auth_entries(t)
    \/ \E e \in EntryIds : SetupEntry(e)
    \/ /\ fw = UniformFw
       /\ FirmwareChange("a")
       /\ fw'["a"] = [device_type |-> "bulb", connection_parameters |-> "p2"]

\* One record paired earlier, by this version or by one that stored neither
\* device type nor connection parameters.
InitRecords ==
    /\ \E t \in {"none", "plug"} :
         entries = [e \in EntryIds |->
                      IF e = 1
                      THEN PairedRecord("a", "h1", t, IF t = "none" THEN "none" ELSE "p1")
                      ELSE NoEntry]
    /\ coord = [e \in EntryIds |-> NoCoord]
    /\ store = StorageOf("c1")
    /\ flows = [f \in FlowIds |-> NoFlow]
    /\ timers = {}
    /\ last = NoLast
    /\ fw = UniformFw
    /\ at = HomeAt
    /\ net = [i \in Interfaces |-> {}]
    /\ disc = NoDisc
    /\ registry = <<>>
    /\ ring = NoRing

SpecRecords == InitRecords /\ [][NextRecords]_vars

\* The CredentialStore on its own: saves, loads and removals in any order,
\* starting from an empty or a filled slot.  last.saved lists the saves made
\* since the slot was last known empty.
StoreSave(c) ==
    /\ Len(last.saved) < MaxSaves
    /\ store' = set_stored_credentials(store, Username(c), Password(c))
    /\ last' = [NoLast EXCEPT !.op = "set_stored_credentials", !.input = c,
                              !.saved = Append(last.saved, c)]
    /\ UNCHANGED <<entries, coord, flows, timers, net, disc, fw, at, registry, ring>>

StoreLoad ==
    /\ last' = [NoLast EXCEPT !.op = "get_stored_credentials",
                              !.result = get_stored_credentials(store),
                              !.saved = last.saved]
    /\ UNCHANGED <<entries, coord, store, flows, timers, net, disc, fw, at, registry, ring>>

\* _get_store(hass).async_remove()
StoreRemove ==
    /\ store' = NoStorage
    /\ last' = [NoLast EXCEPT !.op = "async_remove"]
    /\ UNCHANGED <<entries, coord, flows, timers, net, disc, fw, at, registry, ring>>

InitStore ==
    /\ entries = [e \in EntryIds |-> NoEntry]
    /\ coord = [e \in EntryIds |-> NoCoord]
    /\ store \in {NoStorage} \cup {StorageOf(c) : c \in Creds}
    /\ flows = [f \in FlowIds |-> NoFlow]
    /\ timers = {}
    /\ last = NoLast
    /\ fw = UniformFw
    /\ at = HomeAt
    /\ net = [i \in Interfaces |-> {}]
    /\ disc = NoDisc
    /\ registry = <<>>
    /\ ring = NoRing

NextStore ==
    \/ \E c \in Creds : StoreSave(c)
    \/ StoreLoad
    \/ StoreRemove

SpecStore == InitStore /\ [][NextStore]_vars

\* ------------------------------------------- Ring: unique id migration
CAMERA_DOMAIN == "camera"
EntityDomains == {"camera", "light", "sensor"}
RingDeviceIds == {1, 2}

\* The minor version the flow handler gives new entries.
CONF_CONFIG_ENTRY_MINOR_VERSION == 2

\* A unique id: the integer n, or the string of n followed by `suffix`
\* copies of "-last_recording".
IntId(n) == [int |-> TRUE, n |-> n, suffix |-> 0]
StrId(n) == [int |-> FALSE, n |-> n, suffix |-> 0]

\* str(unique_id)
str(unique_id) == [unique_id EXCEPT !.int = FALSE]

\* f"{entity_entry.unique_id}-last_recording"
LastRecording(unique_id) == [str(unique_id) EXCEPT !.suffix = @ + 1]

\* What a migrator returns: None, or {"new_unique_id": ...}.
NoUpdates == [update |-> FALSE, new_unique_id |-> StrId(0)]
Updates(new_unique_id) == [update |-> TRUE, new_unique_id |-> new_unique_id]

\* entity_registry.async_get_entity_id(domain, platform, unique_id): the
\* entity registered under that key (its position), 0 when there is none.
async_get_entity_id(reg, domain, platform, unique_id) ==
    LET hits == {i \in 1..Len(reg) : /\ reg[i].domain = domain
                                     /\ reg[i].platform = platform
                                     /\ reg[i].unique_id = unique_id}
    IN  IF hits = {} THEN 0 ELSE CHOOSE i \in hits : TRUE

\* The integer migrator converting whether or not the string id is taken.
IntMigratorUnchecked(reg, entity_entry) ==
    IF entity_entry.unique_id.int THEN Updates(str(entity_entry.unique_id))
    ELSE NoUpdates

\* async_migrate_entry._async_int_unique_id_migrator
_async_int_unique_id_migrator(reg, entity_entry) ==
    LET unique_id == entity_entry.unique_id
    IN  IF unique_id.int THEN
            LET new_unique_id == str(unique_id)
            IN  IF async_get_entity_id(reg, entity_entry.domain, entity_entry.platform,
                                       new_unique_id) # 0
                THEN NoUpdates
                ELSE Updates(new_unique_id)
        ELSE NoUpdates

\* async_migrate_entry._async_camera_unique_id_migrator
_async_camera_unique_id_migrator(entity_entry) ==
    IF entity_entry.domain = CAMERA_DOMAIN /\ ~entity_entry.unique_id.int
    THEN Updates(LastRecording(entity_entry.unique_id))
    ELSE NoUpdates

\* registry.async_update_entity(entity_id, new_unique_id=...) raises
\* ValueError when the new key is in use.
UniqueIdInUse(reg, i, new_unique_id) ==
    async_get_entity_id(reg, reg[i].domain, reg[i].platform, new_unique_id) # 0

\* er.async_migrate_entries(hass, entry_id, callback) over the entities todo
\* of the entry, in registry order; which names the callback.
RECURSIVE async_migrate_entries(_, _, _)
async_migrate_entries(reg, todo, which) ==
    IF todo = <<>> THEN [registry |-> reg, raised |-> FALSE]
    ELSE LET i == Head(todo)
             updates == IF which = "int"
                        THEN _async_int_unique_id_migrator(reg, reg[i])
                        ELSE _async_camera_unique_id_migrator(reg[i])
         IN  IF ~updates.update THEN async_migrate_entries(reg, Tail(todo), which)
             ELSE IF UniqueIdInUse(reg, i, updates.new_unique_id)
             THEN [registry |-> reg, raised |-> TRUE]
             ELSE async_migrate_entries(
                      [reg EXCEPT ![i].unique_id = updates.new_unique_id],
                      Tail(todo), which)

\* The entities of a config entry, in registry order.
RECURSIVE EntitiesOf(_, _, _)
EntitiesOf(reg, entry_id, i) ==
    IF i > Len(reg) THEN <<>>
    ELSE IF reg[i].config_entry_id = entry_id
    THEN <<i>> \o EntitiesOf(reg, entry_id, i + 1)
    ELSE EntitiesOf(reg, entry_id, i + 1)

\* async_migrate_entry: the registry afterwards, and whether the function
\* returned True ("ok") or an exception left it ("raise").
async_migrate_entry(reg, config_entry, entry_id) ==
    LET new_minor_version == 2
    IN  IF /\ config_entry.version = 1
           /\ config_entry.minor_version < new_minor_version
           /\ new_minor_version <= CONF_CONFIG_ENTRY_MINOR_VERSION
        THEN LET p1 == async_migrate_entries(reg, EntitiesOf(reg, entry_id, 1), "int")
                 p2 == async_migrate_entries(p1.registry,
                                             EntitiesOf(p1.registry, entry_id, 1),
                                             "camera")
             IN  IF p1.raised THEN [registry |-> p1.registry, result |-> "raise"]
                 ELSE IF p2.raised THEN [registry |-> p2.registry, result |-> "raise"]
                 ELSE [registry |-> p2.registry, result |-> "ok"]
        ELSE [registry |-> reg, result |-> "ok"]

\* ConfigEntry.async_migrate, run by the platform at every setup of the
\* entry: async_migrate_entry is called unless the entry already has the
\* handler's version.
MigrateEntry ==
    /\ ring.version # 0
    /\ ring.migrations < MaxMigrations
    /\ IF ring.minor_version = CONF_CONFIG_ENTRY_MINOR_VERSION
       THEN /\ registry' = registry
            /\ last' = [NoLast EXCEPT !.op = "migrate_entry", !.entry = 1,
                                      !.result = "skipped"]
       ELSE LET r == async_migrate_entry(registry, ring, 1)
            IN  /\ registry' = r.registry
                /\ last' = [NoLast EXCEPT !.op = "migrate_entry", !.entry = 1,
                                          !.result = r.result]
    /\ ring' = [ring EXCEPT !.migrations = @ + 1]
    /\ UNCHANGED <<entries, coord, store, flows, timers, net, disc, fw, at>>

\* The entities an installation of the version before the migration holds:
\* cameras and lights with integer or string ids, sensors with string ids.
LegacyEntities ==
    {[domain |-> d, platform |-> "ring", unique_id |-> u, config_entry_id |-> c] :
        d \in EntityDomains, u \in {IntId(n) : n \in RingDeviceIds}
                                  \cup {StrId(n) : n \in RingDeviceIds},
        c \in RingEntryIds}
    \ {[domain |-> "sensor", platform |-> "ring", unique_id |-> IntId(n),
         config_entry_id |-> c] : n \in RingDeviceIds, c \in RingEntryIds}

\* A registry holds one entity per (domain, platform, unique id).
ValidRegistry(reg) ==
    \A i, j \in 1..Len(reg) :
        (/\ reg[i].domain = reg[j].domain
         /\ reg[i].platform = reg[j].platform
         /\ reg[i].unique_id = reg[j].unique_id) => i = j

LegacyRegistries ==
    {reg \in UNION {[1..n -> LegacyEntities] : n \in 0..MaxEntities} :
        ValidRegistry(reg)}

InitMigrate ==
    /\ entries = [e \in EntryIds |-> NoEntry]
    /\ coord = [e \in EntryIds |-> NoCoord]
    /\ store = NoStorage
    /\ flows = [f \in FlowIds |-> NoFlow]
    /\ timers = {}
    /\ last = NoLast
    /\ fw = UniformFw
    /\ at = HomeAt
    /\ net = [i \in Interfaces |-> {}]
    /\ disc = NoDisc
    /\ registry \in LegacyRegistries
    /\ ring \in {[NoRing EXCEPT !.version = 1, !.minor_version = m] : m \in {1, 2}}

NextMigrate == MigrateEntry

SpecMigrate == InitMigrate /\ [][NextMigrate]_vars

\* ------------------------------------------------------ Ring config flow
\* The accounts, passwords, two-factor codes and tokens the flow is
\* exercised with.
RingUsers == {"foo@bar.com", "hello@home-assistant.io"}
RingPasswords == {"fake-password", "other-password"}
RingCodes == {"123456"}
RingTokens == {"new-foobar", "newer-foobar"}

\* Outcomes of Auth.async_fetch_token: a token, Requires2FAError,
\* AuthenticationError, any other exception.
FetchOutcomes == {"ok", "2fa", "auth", "other"}

\* What a step is given: None, the fields of the form of the step, or the
\* hardware address of a DhcpServiceInfo.
NoRingInput == [username |-> "none", password |-> "none", code |-> "none",
                mac |-> "none"]

\* One call the flow or the platform made for it, and the token it returned.
RingCall(fn, e, username, password, code, out, token) ==
    [fn |-> fn, entry |-> e, username |-> username, password |-> password,
     code |-> code, out |-> out, token |-> token]

\* validate_input: auth.async_fetch_token(username, password, 2fa code)
validate_input(data, out, token) ==
    RingCall("async_fetch_token", 0, data.username, data.password, data.code,
             out, IF out = "ok" THEN token ELSE "none")

\* The platform sets an entry up: after its creation and at every reload.
RingSetup(e) ==
    RingCall("async_setup_entry", e, "none", "none", "none", "ok", "none")

RingCurrentEntries(rg) ==
    {e \in RingEntryIds : rg.config_entries[e] # NoRingEntry}

RingForm(rg, f, fr, calls, step, error) ==
    [ring |-> [rg EXCEPT !.flows[f] = [fr EXCEPT !.status = "active",
                                                 !.step = step]],
     calls |-> calls, result |-> "form", step |-> step, reason |-> "none",
     error |-> error, created |-> 0]

RingAbort(rg, f, calls, reason) ==
    [ring |-> [rg EXCEPT !.flows[f] = NoRingFlow],
     calls |-> calls, result |-> "abort", step |-> "none", reason |-> reason,
     error |-> "none", created |-> 0]

\* self.async_create_entry(title=username, data={username, token}): the
\* platform persists the entry and sets it up.
RingCreateEntry(rg, f, calls, data) ==
    LET free == RingEntryIds \ RingCurrentEntries(rg)
        id == CHOOSE e \in free : \A x \in free : e <= x
    IN  [ring |-> [rg EXCEPT !.flows[f] = NoRingFlow,
                             !.config_entries[id] = data],
         calls |-> Append(calls, RingSetup(id)), result |-> "create_entry",
         step |-> "none", reason |-> "none", error |-> "none", created |-> id]

\* The user step that creates an entry for a username that has one.
RingUserWithoutUniqueId(rg, f, fr0, user_input, out, token) ==
    IF user_input = NoRingInput THEN RingForm(rg, f, fr0, <<>>, "user", "none")
    ELSE LET call == validate_input(user_input, out, token)
         IN  CASE out = "2fa" ->
                    RingForm(rg, f, [fr0 EXCEPT !.user_pass =
                                 [username |-> user_input.username,
                                  password |-> user_input.password]],
                             <<call>>, "2fa", "none")
               [] out = "auth" -> RingForm(rg, f, fr0, <<call>>, "user", "invalid_auth")
               [] out = "other" -> RingForm(rg, f, fr0, <<call>>, "user", "unknown")
               [] out = "ok" ->
                    RingCreateEntry(rg, f, <<call>>,
                                    [username |-> user_input.username,
                                     token |-> token])

\* RingConfigFlow.async_step_user
ring_async_step_user(rg, f, fr0, user_input, out, token) ==
    IF user_input = NoRingInput THEN RingForm(rg, f, fr0, <<>>, "user", "none")
    ELSE LET fr == [fr0 EXCEPT !.unique_id = user_input.username]
             call == validate_input(user_input, out, token)
         IN  IF \E g \in FlowIds : /\ g # f
                                   /\ rg.flows[g].status = "active"
                                   /\ rg.flows[g].unique_id = fr.unique_id
             THEN RingAbort(rg, f, <<>>, "already_in_progress")
             ELSE IF \E e \in RingCurrentEntries(rg) :
                        rg.config_entries[e].username = fr.unique_id
             THEN RingAbort(rg, f, <<>>, "already_configured")
             ELSE CASE out = "2fa" ->
                         RingForm(rg, f, [fr EXCEPT !.user_pass =
                                      [username |-> user_input.username,
                                       password |-> user_input.password]],
                                  <<call>>, "2fa", "none")
                    [] out = "auth" -> RingForm(rg, f, fr, <<call>>, "user", "invalid_auth")
                    [] out = "other" -> RingForm(rg, f, fr, <<call>>, "user", "unknown")
                    [] out = "ok" ->
                         RingCreateEntry(rg, f, <<call>>,
                                         [username |-> user_input.username,
                                          token |-> token])

\* The reauth step that stores the token in a new entry.
RingReauthCreates(rg, f, fr, user_input, out, token) ==
    IF user_input = NoRingInput
    THEN RingForm(rg, f, fr, <<>>, "reauth_confirm", "none")
    ELSE LET e == fr.reauth_entry
             data == [user_input EXCEPT !.username = rg.config_entries[e].username]
             call == validate_input(data, out, token)
         IN  CASE out = "2fa" ->
                    RingForm(rg, f, [fr EXCEPT !.user_pass =
                                 [username |-> data.username,
                                  password |-> data.password]],
                             <<call>>, "2fa", "none")
               [] out = "auth" ->
                    RingForm(rg, f, fr, <<call>>, "reauth_confirm", "invalid_auth")
               [] out = "other" ->
                    RingForm(rg, f, fr, <<call>>, "reauth_confirm", "unknown")
               [] out = "ok" ->
                    [RingCreateEntry(rg, f, <<call>>,
                                     [username |-> data.username, token |-> token])
                        EXCEPT !.result = "abort", !.reason = "reauth_successful",
                               !.created = 0]

\* RingConfigFlow.async_step_reauth_confirm: the username is the one of the
\* entry; an accepted password updates the entry's data and reloads it.
ring_async_step_reauth_confirm(rg, f, fr, user_input, out, token) ==
    IF user_input = NoRingInput
    THEN RingForm(rg, f, fr, <<>>, "reauth_confirm", "none")
    ELSE LET e == fr.reauth_entry
             data == [user_input EXCEPT !.username = rg.config_entries[e].username]
             call == validate_input(data, out, token)
         IN  CASE out = "2fa" ->
                    RingForm(rg, f, [fr EXCEPT !.user_pass =
                                 [username |-> data.username,
                                  password |-> data.password]],
                             <<call>>, "2fa", "none")
               [] out = "auth" ->
                    RingForm(rg, f, fr, <<call>>, "reauth_confirm", "invalid_auth")
               [] out = "other" ->
                    RingForm(rg, f, fr, <<call>>, "reauth_confirm", "unknown")
               [] out = "ok" ->
                    RingAbort([rg EXCEPT !.config_entries[e] =
                                   [username |-> data.username, token |-> token]],
                              f, <<call, RingSetup(e)>>, "reauth_successful")

\* The 2fa step that asks for the token without the password it kept.
RingTwoFaForgetsPassword(rg, f, fr, user_input, out, token) ==
    IF user_input = NoRingInput THEN RingForm(rg, f, fr, <<>>, "2fa", "none")
    ELSE LET data == [username |-> fr.user_pass.username,
                      password |-> "none",
                      code |-> user_input.code]
         IN  IF fr.reauth_entry # 0
             THEN ring_async_step_reauth_confirm(rg, f, fr, data, out, token)
             ELSE ring_async_step_user(rg, f, fr, data, out, token)

\* RingConfigFlow.async_step_2fa: the code is merged into the username and
\* password kept by the step that was told 2FA is required, and that step
\* runs again.
ring_async_step_2fa(rg, f, fr, user_input, out, token) ==
    IF user_input = NoRingInput THEN RingForm(rg, f, fr, <<>>, "2fa", "none")
    ELSE LET data == [username |-> fr.user_pass.username,
                      password |-> fr.user_pass.password,
                      code |-> user_input.code]
         IN  IF fr.reauth_entry # 0
             THEN ring_async_step_reauth_confirm(rg, f, fr, data, out, token)
             ELSE ring_async_step_user(rg, f, fr, data, out, token)

\* RingConfigFlow.async_step_dhcp: an address that is a Ring device of the
\* device registry is configured; any other address starts the user step.
ring_async_step_dhcp(rg, f, fr, mac) ==
    IF rg.device_registry[mac] # 0
    THEN RingAbort(rg, f, <<>>, "already_configured")
    ELSE ring_async_step_user(rg, f, fr, NoRingInput, "ok", "none")

RingFreeFlow(f) == /\ ring.flows[f].status = "none"
                   /\ \A g \in FlowIds : g < f => ring.flows[g].status # "none"

RingApply(op, f, e, input, r) ==
    /\ ring' = r.ring
    /\ last' = [NoLast EXCEPT !.op = op, !.flow = f, !.entry = e,
                              !.input = input, !.calls = r.calls,
                              !.result = r.result, !.step = r.step,
                              !.reason = r.reason, !.error = r.error,
                              !.created = r.created]
    /\ UNCHANGED <<entries, coord, store, flows, timers, net, disc, fw, at,
                   registry>>

NewRingFlow(source) == [NoRingFlow EXCEPT !.status = "active", !.source = source]

\* flow.async_init(DOMAIN, context={"source": SOURCE_USER})
RingStartUser(f) ==
    /\ RingFreeFlow(f)
    /\ RingApply("ring_init_user", f, 0, NoRingInput,
                 ring_async_step_user(ring, f, NewRingFlow("user"), NoRingInput,
                                      "ok", "none"))

\* flow.async_init(DOMAIN, context={"source": SOURCE_DHCP}, data=DhcpServiceInfo)
RingStartDhcp(f, mac) ==
    /\ RingFreeFlow(f)
    /\ RingApply("ring_init_dhcp", f, 0, [NoRingInput EXCEPT !.mac = mac],
                 ring_async_step_dhcp(ring, f, NewRingFlow("dhcp"), mac))

\* entry.async_start_reauth(hass): one reauth flow per entry at a time.
RingStartReauth(f, e) ==
    /\ RingFreeFlow(f)
    /\ e \in RingCurrentEntries(ring)
    /\ \A g \in FlowIds : ~(/\ ring.flows[g].status = "active"
                            /\ ring.flows[g].reauth_entry = e)
    /\ RingApply("ring_init_reauth", f, e, NoRingInput,
                 ring_async_step_reauth_confirm(
                     ring, f, [NewRingFlow("reauth") EXCEPT !.reauth_entry = e],
                     NoRingInput, "ok", "none"))

\* flow.async_configure(flow_id, {username, password}) at the user form
RingStepUser(f, username, password, out, token) ==
    /\ ring.flows[f].status = "active"
    /\ ring.flows[f].step = "user"
    /\ RingApply("ring_user", f, 0,
                 [NoRingInput EXCEPT !.username = username,
                                     !.password = password],
                 ring_async_step_user(ring, f, ring.flows[f],
                     [NoRingInput EXCEPT !.username = username,
                                         !.password = password], out, token))

\* flow.async_configure(flow_id, {"2fa": code}) at the 2fa form
RingStep2fa(f, code, out, token) ==
    /\ ring.flows[f].status = "active"
    /\ ring.flows[f].step = "2fa"
    /\ RingApply("ring_2fa", f, ring.flows[f].reauth_entry,
                 [NoRingInput EXCEPT !.code = code],
                 ring_async_step_2fa(ring, f, ring.flows[f],
                     [NoRingInput EXCEPT !.code = code], out, token))

\* flow.async_configure(flow_id, {password}) at the reauth_confirm form
RingStepReauthConfirm(f, password, out, token) ==
    /\ ring.flows[f].status = "active"
    /\ ring.flows[f].step = "reauth_confirm"
    /\ RingApply("ring_reauth_confirm", f, ring.flows[f].reauth_entry,
                 [NoRingInput EXCEPT !.password = password],
                 ring_async_step_reauth_confirm(ring, f, ring.flows[f],
                     [NoRingInput EXCEPT !.password = password], out, token))

\* The setup of an entry registers the devices of its account, each under
\* the identifier (DOMAIN, hardware address).
RingRegisterDevice(e, mac) ==
    /\ e \in RingCurrentEntries(ring)
    /\ ring.device_registry[mac] = 0
    /\ ring' = [ring EXCEPT !.device_registry[mac] = e]
    /\ last' = [NoLast EXCEPT !.op = "ring_register_device", !.entry = e]
    /\ UNCHANGED <<entries, coord, store, flows, timers, net, disc, fw, at,
                   registry>>

\* The entry of the tests: account foo@bar.com with its first token.
RingFirstEntry == [username |-> "foo@bar.com", token |-> "foobar"]

InitRing ==
    /\ entries = [e \in EntryIds |-> NoEntry]
    /\ coord = [e \in EntryIds |-> NoCoord]
    /\ store = NoStorage
    /\ flows = [f \in FlowIds |-> NoFlow]
    /\ timers = {}
    /\ last = NoLast
    /\ fw = UniformFw
    /\ at = HomeAt
    /\ net = [i \in Interfaces |-> {}]
    /\ disc = NoDisc
    /\ registry = <<>>
    /\ ring \in {[NoRing EXCEPT !.version = 1,
                                !.minor_version = CONF_CONFIG_ENTRY_MINOR_VERSION,
                                !.config_entries[1] = x] :
                    x \in {NoRingEntry, RingFirstEntry}}

NextRing ==
    \/ \E f \in FlowIds : RingStartUser(f)
    \/ \E f \in FlowIds, mac \in RingMacs : RingStartDhcp(f, mac)
    \/ \E f \in FlowIds, e \in RingEntryIds : RingStartReauth(f, e)
    \/ \E f \in FlowIds, u \in RingUsers, p \in RingPasswords,
          o \in FetchOutcomes, t \in RingTokens : RingStepUser(f, u, p, o, t)
    \/ \E f \in FlowIds, c \in RingCodes, o \in FetchOutcomes, t \in RingTokens :
          RingStep2fa(f, c, o, t)
    \/ \E f \in FlowIds, p \in RingPasswords, o \in FetchOutcomes,
          t \in RingTokens : RingStepReauthConfirm(f, p, o, t)
    \/ \E e \in RingEntryIds, mac \in RingMacs : RingRegisterDevice(e, mac)

SpecRing == InitRing /\ [][NextRing]_vars

TypeOK ==
    /\ store \in {NoStorage} \cup {StorageOf(c) : c \in Creds}
    /\ \A e \in EntryIds : entries[e].state \in
          {"absent", "not_loaded", "loaded", "failed_unload"}
    /\ \A f \in FlowIds : flows[f].status \in {"none", "active"}

\* ================================================================ claims
\* C1: no two ConfigRecords share a unique key, and a flow that reaches
\* _async_create_entry_from_device while its unique key has a record aborts
\* with already_configured and adds no record.
C1_UniqueKeyPerRecord ==
    /\ [](\A e1, e2 \in CurrentEntries :
            e1 # e2 => entries[e1].unique_id # entries[e2].unique_id)
    /\ [](last.finalize = "configured" =>
            /\ last.result = "abort"
            /\ last.reason = "already_configured"
            /\ last.created = 0)
    /\ [][last'.finalize = "configured" =>
            /\ CurrentEntries' = CurrentEntries
            /\ \A e \in EntryIds : entries'[e].unique_id = entries[e].unique_id]_vars

\* A flow was stopped at finalize while a record of another device exists.
C1_Witness ==
    /\ last.finalize = "configured"
    /\ last.reason = "already_configured"
    /\ Cardinality(CurrentEntries) = 2

\* C2: a setup that finds another hardware address than the record's unique
\* key fails "not ready", publishes no coordinator, forwards no platform and
\* leaves every field of the record as it was before the setup.
C2_MismatchLeavesRecord ==
    /\ [](last.op = "setup_entry" /\ last.mismatch =>
            /\ last.signal = "not_ready"
            /\ ~last.forwarded
            /\ ~coord[last.entry].present)
    /\ [][last'.op = "setup_entry" /\ last'.mismatch =>
            entries'[last'.entry] = entries[last'.entry]]_vars

\* The completion orders of the broadcasts.
Orders ==
    {ord \in [Interfaces -> Interfaces] : \A i, j \in Interfaces : ord[i] = ord[j] => i = j}

\* C5: the result of async_discover_devices is keyed by the normalized
\* address of every device that answered, maps each key to a device with that
\* address, is the same for every order in which the broadcasts complete, and
\* is the same in a second run on the unchanged network.
C5_MergeOrderIndependent ==
    disc.pc = "done" =>
        /\ DOMAIN disc.result = {format_mac(d.mac) : d \in UNION {net[i] : i \in Interfaces}}
        /\ \A k \in DOMAIN disc.result :
              /\ format_mac(disc.result[k].mac) = k
              /\ \E i \in Interfaces : disc.result[k] \in net[i]
        /\ \A ord \in Orders : disc.result = async_discover_devices(net, ord)
        /\ disc.runs >= 2 => disc.result = disc.previous

\* Two runs, the second with the broadcasts completing in reverse, on a
\* network where one address answers on two interfaces from different hosts.
C5_Witness ==
    /\ disc.pc = "done"
    /\ disc.runs = 2
    /\ disc.completed = <<2, 1>>
    /\ disc.result = disc.previous
    /\ \E x \in net[1], y \in net[2] : x.mac = y.mac /\ x.host # y.host

\* C6: in async_setup_entry an AuthenticationException of connect gives the
\* needs-reauth signal, any other SDK failure the not-ready signal, and in
\* both cases no coordinator is published and no platform is forwarded.
C6_SetupFailureSignals ==
    (last.op = "setup_entry" /\ last.calls[1].out # "ok") =>
        /\ last.calls[1].out = "auth" => last.signal = "auth_failed"
        /\ last.calls[1].out = "other" => last.signal = "not_ready"
        /\ ~last.forwarded
        /\ ~coord[last.entry].present
        /\ entries[last.entry].state = "not_loaded"

\* A setup with stored credentials that the device rejected.
C6_Witness ==
    /\ last.op = "setup_entry"
    /\ last.calls[1].out = "auth"
    /\ last.calls[1].creds = "c1"
    /\ last.signal = "auth_failed"

\* The last SDK call of the handler that ran last.
LastCall == last.calls[Len(last.calls)]

\* The reauth step ran last and the device accepted the submitted credentials.
ReauthAccepted ==
    /\ last.op = "reauth_confirm"
    /\ Len(last.calls) = 2
    /\ LastCall.by = "input" /\ LastCall.creds = last.input /\ LastCall.out = "ok"

\* C3: a reauth submission the device accepts saves the credentials once,
\* reloads the target entry once, ends the flow with reauth_successful,
\* creates no record and shows no further form; the deferred reload pass the
\* flow scheduled never reloads the target entry.
C3_ReauthSuccess ==
    /\ [](ReauthAccepted =>
            /\ last.saved = <<last.input>>
            /\ last.reloads = <<last.entry>>
            /\ last.result = "abort"
            /\ last.reason = "reauth_successful"
            /\ last.created = 0
            /\ last.step = "none"
            /\ flows[last.flow] = NoFlow)
    /\ [][ReauthAccepted' =>
            /\ CurrentEntries' = CurrentEntries
            /\ [owner |-> 0, reauth_entry |-> last'.entry] \in timers']_vars
    /\ [](last.op = "reload_requires_auth" /\ last.entry # 0 =>
            \A i \in 1..Len(last.reloads) : last.reloads[i] # last.entry)

\* The reauth of a loaded entry succeeded and the reload set it up again.
C3_Witness ==
    /\ ReauthAccepted
    /\ last.reason = "reauth_successful"
    /\ entries[last.entry].state = "loaded"
    /\ coord[last.entry].present

\* C4: when the stored credentials equal the ones remembered as failed, the
\* discovery auth step makes no connect attempt with the stored credentials:
\* entered from the discovery it only shows the form, and on a submission its
\* only connect is the one with the submitted credentials.
C4_NoRetryOfFailedCredentials ==
    /\ [](last.op = "handle_discovery" =>
            \A i \in 1..Len(last.calls) : last.calls[i].fn # "connect")
    /\ [][\A f \in FlowIds :
            (/\ last'.op = "discovery_auth_confirm"
             /\ last'.flow = f
             /\ get_stored_credentials(store) = flows[f].last_failed)
            => /\ Len(last'.calls) = 1
               /\ last'.calls[1].by = "input"
               /\ last'.calls[1].creds = last'.input]_vars

\* A submission rejected while the stored credentials, saved by an earlier
\* session, are still the ones that failed.
C4_Witness ==
    /\ last.op = "discovery_auth_confirm"
    /\ last.result = "form"
    /\ Len(last.calls) = 1
    /\ get_stored_credentials(store) \in Creds
    /\ get_stored_credentials(store) = flows[last.flow].last_failed

\* C7: a passive discovery that is not aborted as already configured or
\* already in progress ends its first step by the outcome of its last SDK
\* call with the stored credentials: success shows discovery_confirm, an
\* authentication failure shows discovery_auth_confirm and remembers the
\* credentials that failed, any other failure aborts with cannot_connect.
C7_DiscoveryFirstStep ==
    (/\ last.op = "handle_discovery"
     /\ last.reason \notin {"already_configured", "already_in_progress"})
    => /\ Len(last.calls) >= 1
       /\ LastCall.by = "stored" /\ LastCall.creds = get_stored_credentials(store)
       /\ LastCall.out = "ok" =>
            /\ LastCall.fn = "update"
            /\ last.result = "form" /\ last.step = "discovery_confirm"
            /\ flows[last.flow].step = "discovery_confirm"
            /\ flows[last.flow].device # NoDev
       /\ LastCall.out = "auth" =>
            /\ last.result = "form" /\ last.step = "discovery_auth_confirm"
            /\ flows[last.flow].step = "discovery_auth_confirm"
            /\ flows[last.flow].last_failed = LastCall.creds
       /\ LastCall.out = "other" =>
            /\ last.result = "abort" /\ last.reason = "cannot_connect"
            /\ flows[last.flow] = NoFlow

\* The device rejected stored credentials and the auth form is shown.
C7_Witness ==
    /\ last.op = "handle_discovery"
    /\ Len(last.calls) = 2
    /\ LastCall.out = "auth"
    /\ last.step = "discovery_auth_confirm"
    /\ flows[last.flow].last_failed \in Creds

\* The four steps that prompt for credentials (their step ids).
PromptSteps == {"discovery_auth_confirm", "user_auth_confirm",
                "pick_device_auth_confirm", "reauth_confirm"}

\* A prompt step ran last and its last SDK call, made with the credentials
\* the user submitted, ended with outcome o.
Submitted(o) ==
    /\ last.op \in PromptSteps
    /\ last.input \in Creds
    /\ Len(last.calls) >= 1
    /\ LastCall.by = "input" /\ LastCall.creds = last.input /\ LastCall.out = o

\* C8: in each of the four prompt steps, submitted credentials the device
\* rejects re-show the same form with invalid_auth, leave the CredentialStore
\* as it was and schedule no reload; the store is written only with
\* credentials that an SDK call of the same step has just accepted.
C8_RejectedCredentials ==
    /\ [](Submitted("auth") =>
            /\ last.result = "form"
            /\ last.step = last.op
            /\ flows[last.flow].step = last.op
            /\ last.error = "invalid_auth"
            /\ last.saved = <<>>
            /\ last.scheduled = 0)
    /\ [][Submitted("auth")' => store' = store /\ timers' = timers]_vars
    /\ [](last.saved # <<>> => last.saved = <<last.input>> /\ Submitted("ok"))
    /\ [][(store' # store /\ store' # NoStorage) =>
            last'.saved = <<get_stored_credentials(store')>>]_vars

\* Reauth credentials were rejected while other credentials are stored.
C8_Witness ==
    /\ Submitted("auth")
    /\ last.op = "reauth_confirm"
    /\ get_stored_credentials(store) \in Creds
    /\ get_stored_credentials(store) # last.input

\* C9 as stated: in each of the four prompt steps an SDK error that is not
\* an authentication failure, met with the submitted credentials, aborts the
\* flow with cannot_connect.
C9_AbortsCannotConnect ==
    Submitted("other") => last.result = "abort" /\ last.reason = "cannot_connect"

\* C9 as the code has it: only discovery_auth_confirm aborts with
\* cannot_connect; user_auth_confirm and pick_device_auth_confirm show their
\* form again with error cannot_connect, reauth_confirm shows its form again
\* with error unknown; nothing is saved or scheduled.
C9_NonAuthError ==
    Submitted("other") =>
        /\ last.op = "discovery_auth_confirm" =>
              /\ last.result = "abort" /\ last.reason = "cannot_connect"
              /\ flows[last.flow] = NoFlow
        /\ last.op \in {"user_auth_confirm", "pick_device_auth_confirm"} =>
              /\ last.result = "form" /\ last.step = last.op
              /\ last.error = "cannot_connect"
              /\ flows[last.flow].step = last.op
        /\ last.op = "reauth_confirm" =>
              /\ last.result = "form" /\ last.step = "reauth_confirm"
              /\ last.error = "unknown"
              /\ flows[last.flow].step = "reauth_confirm"
        /\ last.saved = <<>>
        /\ last.scheduled = 0

\* The pick-device prompt shown again after a connect error.
C9_Witness ==
    /\ Submitted("other")
    /\ last.op = "pick_device_auth_confirm"
    /\ last.result = "form"
    /\ last.error = "cannot_connect"

\* A passive discovery for a host ran in this step while another pairing
\* session with that context host was in progress.
DiscoveryMeetsSession ==
    /\ last'.op = "handle_discovery"
    /\ \E g \in FlowIds :
         /\ g # last'.flow
         /\ flows[g].status = "active"
         /\ flows[g].source # "reauth"
         /\ flows[g].host = last'.discovery.host

\* C10 as stated: such a discovery aborts with already_in_progress before any
\* connect or discovery attempt.
C10_AbortsInProgress ==
    [][DiscoveryMeetsSession =>
         /\ last'.result = "abort"
         /\ last'.reason = "already_in_progress"
         /\ last'.calls = <<>>]_vars

\* C10 as the code has it: such a discovery aborts before any connect or
\* discovery attempt; the reason is already_configured when no session in
\* progress holds the discovered address as its unique id and a record exists
\* for that address or for the host, and already_in_progress otherwise.
C10_AbortsBeforeConnect ==
    [][DiscoveryMeetsSession =>
         LET uid == format_mac(last'.discovery.mac)
             host == last'.discovery.host
             claimed == \E g \in FlowIds :
                          /\ g # last'.flow
                          /\ flows[g].status = "active"
                          /\ flows[g].unique_id = uid
             configured == \E e \in CurrentEntries :
                             entries[e].unique_id = uid \/ entries[e].host = host
         IN  /\ last'.result = "abort"
             /\ last'.calls = <<>>
             /\ flows'[last'.flow] = NoFlow
             /\ last'.reason = IF ~claimed /\ configured THEN "already_configured"
                                ELSE "already_in_progress"]_vars

\* A discovery of another device at the host of a session in progress was
\* turned away by the scan of the context hosts.
C10_Witness ==
    /\ last.op = "handle_discovery"
    /\ last.reason = "already_in_progress"
    /\ last.calls = <<>>
    /\ \E g \in FlowIds :
         /\ flows[g].status = "active"
         /\ flows[g].host = last.discovery.host
         /\ flows[g].unique_id # format_mac(last.discovery.mac)

\* The steps a flow in progress can take.
FlowStep(f) ==
    \/ \E c \in Creds : StepDiscoveryAuthConfirm(f, c)
    \/ StepDiscoveryConfirm(f)
    \/ \E host \in Hosts \cup {""} : StepUser(f, host)
    \/ \E c \in Creds : StepUserAuthConfirm(f, c)
    \/ \E mac \in {format_mac(m) : m \in RawMacs} : StepPickDevice(f, mac)
    \/ \E c \in Creds : StepPickDeviceAuthConfirm(f, c)
    \/ \E c \in Creds : StepReauthConfirm(f, c)

AbortReasons == {"cannot_connect", "no_devices_found", "already_configured",
                 "already_in_progress", "reauth_successful"}

\* C11: a flow step that ends in an abort has one of the five reasons, adds
\* no ConfigRecord, and leaves no flow object behind: the flow can take no
\* further step.
C11_AbortIsTerminal ==
    /\ [](last.result = "abort" =>
            /\ last.reason \in AbortReasons
            /\ last.created = 0
            /\ flows[last.flow] = NoFlow
            /\ ~ENABLED FlowStep(last.flow))
    /\ [][last'.result = "abort" => CurrentEntries' = CurrentEntries]_vars

\* A pick-device session was aborted at finalize while a record exists and
\* another session is in progress.
C11_Witness ==
    /\ last.result = "abort"
    /\ last.op = "pick_device"
    /\ last.reason = "already_configured"
    /\ \E f \in FlowIds : flows[f].status = "active"

\* The entries the deferred pass that ran in this step had to reload: those
\* with an active reauth flow, except the reauth target of the flow that
\* scheduled the pass.
DueForReload ==
    {e \in CurrentEntries :
        /\ ActiveReauthFlows(flows, e) # {}
        /\ ~(last'.entry # 0 /\ e = last'.entry)}

\* C12 as stated: a deferred pass whose scheduling flow was torn down before
\* the timer fired reloads no entry.
C12_SkippedWhenTornDown ==
    (last.op = "reload_requires_auth" /\ last.flow = 0) => last.reloads = <<>>

\* C12 as the code has it: the timer is not cancelled when its flow is torn
\* down; the pass runs all the same, reloads every entry due for reload and
\* is then gone.
C12_RunsWhenTornDown ==
    [][(last'.op = "reload_requires_auth" /\ last'.flow = 0) =>
         /\ last'.reloads = SortedSeq(DueForReload)
         /\ Cardinality(timers') = Cardinality(timers) - 1]_vars

\* The pass of a finished flow reloaded an entry.
C12_Witness ==
    /\ last.op = "reload_requires_auth"
    /\ last.flow = 0
    /\ last.reloads # <<>>

\* C13: the deferred pass reloads exactly the entries with an active reauth
\* flow other than the reauth target of the flow that scheduled it, leaves
\* every other entry alone, and aborts exactly the reauth flows of the entries
\* it reloaded that are LOADED after their reload.
C13_DeferredPass ==
    [][last'.op = "reload_requires_auth" =>
         /\ last'.reloads = SortedSeq(DueForReload)
         /\ \A e \in EntryIds \ DueForReload :
               entries'[e] = entries[e] /\ coord'[e] = coord[e]
         /\ \A g \in FlowIds :
               IF /\ flows[g].status = "active"
                  /\ flows[g].source = "reauth"
                  /\ flows[g].reauth_entry \in DueForReload
                  /\ entries'[flows[g].reauth_entry].state = "loaded"
               THEN flows'[g] = NoFlow
               ELSE flows'[g] = flows[g]]_vars

\* The pass of a flow still in progress reloaded an entry whose setup failed
\* again, and left its reauth flow in progress.
C13_Witness ==
    /\ last.op = "reload_requires_auth"
    /\ last.flow # 0
    /\ Len(last.reloads) = 1
    /\ entries[last.reloads[1]].state = "not_loaded"
    /\ ActiveReauthFlows(flows, last.reloads[1]) # {}

\* The unique keys of the existing ConfigRecords.
ConfiguredKeys == {entries[e].unique_id : e \in CurrentEntries}

\* The step that ran last built the pick list (async_step_user with a blank
\* host, handing over to async_step_pick_device).
ListBuilt ==
    /\ last.op = "user"
    /\ Len(last.calls) = 1
    /\ last.calls[1].fn = "discover"

\* The pick list holds exactly the discovered addresses without a record,
\* each a normalized address; an empty list aborts with no_devices_found.
PickListExact ==
    ListBuilt =>
        IF last.found \ ConfiguredKeys = {}
        THEN last.result = "abort" /\ last.reason = "no_devices_found"
        ELSE /\ last.result = "form" /\ last.step = "pick_device"
             /\ flows[last.flow].offered = last.found \ ConfiguredKeys
             /\ \A k \in flows[last.flow].offered :
                   /\ k = format_mac(k)
                   /\ format_mac(flows[last.flow].discovered[k].mac) = k

\* The key chosen in the pick-device step taken in this step.
Picked ==
    LET fr == flows[last'.flow]
    IN  CHOOSE k \in DOMAIN fr.discovered :
            fr.discovered[k].host = last'.calls[1].host

\* C14 as stated: the pick list is exact and a device that already has a
\* record is never selected from it.
C14_NeverSelectsPaired ==
    /\ []PickListExact
    /\ [][last'.op = "pick_device" => Picked \notin ConfiguredKeys]_vars

\* C14 as the code has it: the pick list is exact when it is built; the
\* selection is one of the keys offered then, and selecting a device that
\* got a record since adds no record.
C14_PickList ==
    /\ []PickListExact
    /\ [][last'.op = "pick_device" =>
            /\ Picked \in flows[last'.flow].offered
            /\ Picked \in ConfiguredKeys =>
                  /\ CurrentEntries' = CurrentEntries
                  /\ last'.created = 0
                  /\ last'.result = "abort" => last'.reason \in
                        {"already_configured", "cannot_connect"}]_vars

\* A list was shown that leaves out the one device already paired.
C14_Witness ==
    /\ ListBuilt
    /\ last.result = "form"
    /\ Cardinality(last.found) = 2
    /\ Cardinality(flows[last.flow].offered) = 1

\* The steps of a passive-discovery session.
DiscoveryOps == {"handle_discovery", "discovery_auth_confirm", "discovery_confirm"}

\* C15: a passive-discovery session creates a ConfigRecord only in the
\* discovery_confirm step the user submits on the form that session showed,
\* and that step calls neither connect nor discovery, saves no credentials
\* and schedules nothing: the store is as it was.
C15_CreatesOnlyOnConfirm ==
    /\ [][(last'.op \in DiscoveryOps /\ CurrentEntries' # CurrentEntries) =>
            /\ last'.op = "discovery_confirm"
            /\ last'.result = "create_entry"
            /\ flows[last'.flow].status = "active"
            /\ flows[last'.flow].source = "discovery"
            /\ flows[last'.flow].step = "discovery_confirm"]_vars
    /\ [][last'.op = "discovery_confirm" =>
            /\ last'.calls = <<>>
            /\ last'.saved = <<>>
            /\ last'.scheduled = 0
            /\ store' = store
            /\ timers' = Orphaned(timers, {last'.flow})]_vars

\* A discovery session that had to ask for credentials was confirmed and
\* created its record.
C15_Witness ==
    /\ last.op = "discovery_confirm"
    /\ last.result = "create_entry"
    /\ entries[last.created].state # "absent"
    /\ store # NoStorage

\* async_setup_entry ran on entry e in this step: called by the platform, or
\* by a reload a flow step or its timer asked for.
SetupRan(e) ==
    \/ last'.op = "setup_entry" /\ last'.entry = e
    \/ \E i \in 1..Len(last'.reloads) : last'.reloads[i] = e

\* Device type and connection parameters of a record change only in a step
\* that ran async_setup_entry on it; its unique key never changes.
PatchedBySetupOnly(e) ==
    /\ entries'[e].unique_id = entries[e].unique_id
    /\ (\/ entries'[e].device_type # entries[e].device_type
        \/ entries'[e].connection_params # entries[e].connection_params)
          => SetupRan(e)

\* C16 as stated: an existing record changes in its device type and
\* connection parameters only, by async_setup_entry only; no flow step
\* changes its host or any other field.
C16_OnlySetupModifies ==
    [][\A e \in CurrentEntries :
          /\ PatchedBySetupOnly(e)
          /\ entries'[e].host = entries[e].host]_vars

\* C16 as the code has it: besides the patches of async_setup_entry, the
\* host of an existing record is rewritten by a flow step that aborts with
\* already_configured on that record's unique key (the discovery handler or
\* the finalisation), to the host the device was reported or reached at;
\* nothing else of a record changes.
C16_SetupPatchesAndHostUpdates ==
    [][\A e \in CurrentEntries :
          /\ PatchedBySetupOnly(e)
          /\ entries'[e].host # entries[e].host =>
                /\ last'.result = "abort"
                /\ last'.reason = "already_configured"
                /\ \/ /\ last'.op = "handle_discovery"
                      /\ entries'[e].host = last'.discovery.host
                      /\ entries[e].unique_id = format_mac(last'.discovery.mac)
                   \/ /\ last'.finalize = "configured"
                      /\ entries[e].unique_id =
                            format_mac(DeviceAt(entries'[e].host).mac)]_vars

\* A discovery of the paired device at another host was stopped with
\* already_configured and left the record pointing at the new host.
C16_Witness ==
    /\ last.op = "handle_discovery"
    /\ last.reason = "already_configured"
    /\ last.discovery.host = "h2"
    /\ entries[1].host = "h2"
    /\ entries[1].unique_id = format_mac(last.discovery.mac)

\* C17: the store is a single slot.  Loading an empty slot (never saved, or
\* removed) returns None; after any sequence of saves, whatever the slot held
\* before, loading returns the Credentials of the last save.
C17_SingleSlot ==
    /\ store = NoStorage => get_stored_credentials(store) = NoCreds
    /\ last.op = "async_remove" => store = NoStorage
    /\ last.saved # <<>> =>
          get_stored_credentials(store) = last.saved[Len(last.saved)]
    /\ last.op = "get_stored_credentials" =>
          last.result = IF last.saved # <<>> THEN last.saved[Len(last.saved)]
                        ELSE get_stored_credentials(store)
    /\ get_stored_credentials(store) # NoCreds =>
          /\ store.authentication.username =
                Username(get_stored_credentials(store))
          /\ store.authentication.password =
                Password(get_stored_credentials(store))

\* A load after two saves of different credentials over a filled slot
\* returned the second.
C17_Witness ==
    /\ last.op = "get_stored_credentials"
    /\ Len(last.saved) = 2
    /\ last.saved[1] # last.saved[2]
    /\ last.result = last.saved[2]

\* C18: async_unload_entry closes the device connection of the entry whether
\* or not the platforms unloaded, and removes the stored credentials exactly
\* when the entry is the only one of the domain; otherwise the store is
\* left as it was.
C18_UnloadClosesAndClears ==
    /\ [](last.op = "unload_entry" =>
            /\ Len(last.calls) = 1
            /\ last.calls[1].fn = "close"
            /\ coord[last.entry].present => coord[last.entry].closed)
    /\ [][(last'.op = "unload_entry" /\ entries[last'.entry].state = "loaded") =>
            /\ last'.calls[1].host = entries[last'.entry].host
            /\ entries'[last'.entry].state # "loaded"
            /\ IF Cardinality(CurrentEntries) = 1
               THEN store' = NoStorage
               ELSE store' = store]_vars

\* One of two entries was stopped, its platforms failing to unload: the
\* connection is closed and the stored credentials are kept.
C18_Witness ==
    /\ last.op = "unload_entry"
    /\ last.signal = "failed"
    /\ coord[last.entry].closed
    /\ Cardinality(CurrentEntries) = 2
    /\ store # NoStorage

\* A setup of the entry named in last' succeeded in this step.
SetupSucceeded ==
    /\ last'.op = "setup_entry"
    /\ last'.signal = "ok"
    /\ entries[last'.entry].state = "not_loaded"
    /\ entries'[last'.entry].state = "loaded"

\* C19: after a successful setup the record's device type and connection
\* parameters are those of the connected device, whether they differed or
\* were missing before; unique key and host are unchanged and the entry is
\* loaded with its coordinator published.
C19_SetupPatchesRecord ==
    /\ [](last.op = "setup_entry" /\ last.signal = "ok" =>
            /\ last.forwarded
            /\ coord[last.entry].present)
    /\ [][SetupSucceeded =>
            LET e == last'.entry
                d == DeviceAt(entries[e].host)
            IN  /\ entries'[e].device_type = d.device_type
                /\ entries'[e].connection_params = d.connection_parameters
                /\ entries'[e].unique_id = entries[e].unique_id
                /\ entries'[e].host = entries[e].host]_vars

\* The steps of the pairing and reauth flows.
FlowOps ==
    DiscoveryOps \cup {"user", "user_auth_confirm", "pick_device",
                       "pick_device_auth_confirm", "reauth", "reauth_confirm"}

\* C20: a flow step in which an SDK call (connect, discover_single, update)
\* failed, with an authentication error or any other SDK error, returns a
\* form or an abort; the exception does not leave the step.
C20_NoSdkErrorEscapes ==
    (/\ last.op \in FlowOps
     /\ \E i \in 1..Len(last.calls) : last.calls[i].out # "ok")
    => /\ last.result \in {"form", "abort"}
       /\ last.result = "abort" => last.reason = "cannot_connect"

\* The host entry step ran last with a host given and tried to reach it.
HostTried ==
    /\ last.op = "user"
    /\ Len(last.calls) >= 1
    /\ last.calls[1].fn = "discover_single"

\* What the host entry step does with a blank host, a device that answers
\* and a device that rejects the stored credentials.
UserStepCommon ==
    /\ ListBuilt =>
          /\ last.calls[1].host = "broadcast"
          /\ \/ last.result = "form" /\ last.step = "pick_device"
             \/ last.result = "abort" /\ last.reason = "no_devices_found"
    /\ HostTried =>
          /\ \A i \in 1..Len(last.calls) : last.calls[i].by = "stored"
          /\ LastCall.out = "ok" =>
                /\ LastCall.fn = "update"
                /\ \/ last.result = "create_entry" /\ last.finalize = "free"
                   \/ /\ last.result = "abort" /\ last.reason = "already_configured"
                      /\ last.finalize = "configured"
          /\ LastCall.out = "auth" =>
                /\ last.result = "form" /\ last.step = "user_auth_confirm"
                /\ flows[last.flow].step = "user_auth_confirm"

\* C21 as stated: with a host given, any connect error that is not an
\* authentication failure aborts the flow with cannot_connect.
C21_HostErrorAborts ==
    /\ UserStepCommon
    /\ (HostTried /\ LastCall.out = "other") =>
          last.result = "abort" /\ last.reason = "cannot_connect"

\* C21 as the code has it: a blank host goes to the pick list with no call
\* to any host; with a host given, success finalizes, an authentication
\* failure shows user_auth_confirm, and any other error shows the host form
\* again with error cannot_connect, the flow staying in progress.
C21_HostErrorShowsForm ==
    /\ UserStepCommon
    /\ (HostTried /\ LastCall.out = "other") =>
          /\ last.result = "form" /\ last.step = "user"
          /\ last.error = "cannot_connect"
          /\ flows[last.flow].status = "active"
          /\ flows[last.flow].step = "user"
          /\ last.created = 0

\* The host form shown again after the device at the host failed to update.
C21_Witness ==
    /\ HostTried
    /\ LastCall.fn = "update"
    /\ LastCall.out = "other"
    /\ last.result = "form"
    /\ last.error = "cannot_connect"

\* async_migrate_entry ran in this step on the entry at version 1 with a
\* minor version below 2.
MigrationRan ==
    /\ last'.op = "migrate_entry"
    /\ ring'.migrations = ring.migrations + 1
    /\ ring.version = 1
    /\ ring.minor_version < 2

\* The unique id the migration is to give entity i of the registry.
MigratedId(i) ==
    LET e == registry[i]
        taken == async_get_entity_id(registry, e.domain, e.platform,
                                     str(e.unique_id)) # 0
        s1 == IF e.unique_id.int /\ ~taken THEN str(e.unique_id) ELSE e.unique_id
    IN  IF e.config_entry_id # last'.entry THEN e.unique_id
        ELSE IF e.domain = CAMERA_DOMAIN /\ ~s1.int THEN LastRecording(s1)
        ELSE s1

\* C22: async_migrate_entry on an entry at version 1, minor version below 2,
\* turns every integer unique id of the entry into its string unless that
\* string is taken in the same domain and platform, then appends
\* -last_recording to every camera id of the entry that is not an integer,
\* changes nothing else and returns success.
C22_MigrationRewritesIds ==
    [][MigrationRan =>
         /\ last'.result = "ok"
         /\ Len(registry') = Len(registry)
         /\ \A i \in 1..Len(registry) :
              registry'[i] = [registry[i] EXCEPT !.unique_id = MigratedId(i)]]_vars

\* C23: the migration is one-time: an invocation after the first changes no
\* unique id, and no unique id carries the suffix more than once.
C23_MigrationRunsOnce ==
    /\ [](\A i \in 1..Len(registry) : registry[i].unique_id.suffix <= 1)
    /\ [][(MigrationRan /\ ring.migrations >= 1) => registry' = registry]_vars

\* -------------------------------------------------------- Ring flow claims
\* The calls of the step that set an entry up.
RingSetups(calls) == {i \in 1..Len(calls) : calls[i].fn = "async_setup_entry"}

\* Flow f takes the step op and fetches a token once.
RingFetched(op) ==
    /\ last'.op = op
    /\ Len(last'.calls) >= 1
    /\ last'.calls[1].fn = "async_fetch_token"

\* C24: a password submitted to the reauth flow is checked with the username
\* of the existing entry; when the fetch fails (AuthenticationError:
\* invalid_auth, any other error: unknown) the reauth_confirm form is shown
\* again with that error and no entry changes; when it is accepted the flow
\* aborts with reauth_successful, the existing entry keeps its username and
\* gets the fetched token, no entry is added and the entry is set up exactly
\* once.
C24_ReauthErrorsAndSuccess ==
    [][RingFetched("ring_reauth_confirm") =>
        LET e == last'.entry
            call == last'.calls[1]
        IN  /\ e \in RingCurrentEntries(ring)
            /\ call.username = ring.config_entries[e].username
            /\ call.password = last'.input.password
            /\ call.out \in {"auth", "other"} =>
                  /\ last'.result = "form"
                  /\ last'.step = "reauth_confirm"
                  /\ last'.error = IF call.out = "auth" THEN "invalid_auth"
                                   ELSE "unknown"
                  /\ ring'.config_entries = ring.config_entries
                  /\ RingSetups(last'.calls) = {}
                  /\ ring'.flows[last'.flow].step = "reauth_confirm"
            /\ call.out = "ok" =>
                  /\ last'.result = "abort"
                  /\ last'.reason = "reauth_successful"
                  /\ last'.created = 0
                  /\ ring'.config_entries =
                        [ring.config_entries EXCEPT ![e].token = call.token]
                  /\ Cardinality(RingSetups(last'.calls)) = 1
                  /\ \A i \in RingSetups(last'.calls) : last'.calls[i].entry = e
                  /\ ring'.flows[last'.flow] = NoRingFlow]_vars

\* A reauth of the entry of foo@bar.com was accepted: the entry has the new
\* token and there is still one entry.
C24_Witness ==
    /\ last.op = "ring_reauth_confirm"
    /\ last.reason = "reauth_successful"
    /\ last.entry = 1
    /\ ring.config_entries[1] = [username |-> "foo@bar.com", token |-> "new-foobar"]
    /\ RingCurrentEntries(ring) = {1}

C26_TwoFactorStep ==
    /\ [][(/\ (RingFetched("ring_user") \/ RingFetched("ring_reauth_confirm"))
           /\ last'.calls[1].out = "2fa") =>
              LET call == last'.calls[1]
                  fr == ring'.flows[last'.flow]
              IN  /\ call.password = last'.input.password
                  /\ call.code = "none"
                  /\ last'.result = "form"
                  /\ last'.step = "2fa"
                  /\ fr.step = "2fa"
                  /\ fr.user_pass = [username |-> call.username,
                                     password |-> call.password]
                  /\ ring'.config_entries = ring.config_entries
                  /\ RingSetups(last'.calls) = {}]_vars
    /\ [][last'.op = "ring_2fa" =>
              LET fr == ring.flows[last'.flow]
                  e == fr.reauth_entry
              IN  /\ Len(last'.calls) >= 1
                  /\ last'.calls[1].fn = "async_fetch_token"
                  /\ \A i \in 2..Len(last'.calls) :
                        last'.calls[i].fn # "async_fetch_token"
                  /\ last'.calls[1].username = fr.user_pass.username
                  /\ last'.calls[1].password = fr.user_pass.password
                  /\ last'.calls[1].code = last'.input.code
                  /\ last'.calls[1].code \in RingCodes
                  /\ IF last'.calls[1].out = "ok"
                     THEN IF e = 0
                          THEN /\ last'.result = "create_entry"
                               /\ last'.created \notin RingCurrentEntries(ring)
                               /\ ring'.config_entries =
                                     [ring.config_entries EXCEPT ![last'.created] =
                                        [username |-> fr.user_pass.username,
                                         token |-> last'.calls[1].token]]
                          ELSE /\ last'.result = "abort"
                               /\ last'.reason = "reauth_successful"
                               /\ ring'.config_entries =
                                     [ring.config_entries EXCEPT ![e].token =
                                        last'.calls[1].token]
                     ELSE /\ last'.result = "form"
                          /\ ring'.config_entries = ring.config_entries
                          /\ RingSetups(last'.calls) = {}]_vars

\* The 2fa step of a user flow created the entry of foo@bar.com from the
\* password given before and the code.
C26_Witness ==
    /\ last.op = "ring_2fa"
    /\ last.result = "create_entry"
    /\ Len(last.calls) = 2
    /\ last.calls[1].username = "foo@bar.com"
    /\ last.calls[1].password = "fake-password"
    /\ last.calls[1].code = "123456"
    /\ ring.config_entries[last.created] =
          [username |-> "foo@bar.com", token |-> "new-foobar"]

\* ------------------------------------------- passive discovery sessions
\* The stored credential values a step saw rejected with
\* AuthenticationError, and the ones it made a connect attempt with.
StoredRejected(l) ==
    {l.calls[i].creds : i \in {j \in 1..Len(l.calls) :
                                 /\ l.calls[j].by = "stored"
                                 /\ l.calls[j].out = "auth"}}

StoredTried(l) ==
    {l.calls[i].creds : i \in {j \in 1..Len(l.calls) :
                                 /\ l.calls[j].by = "stored"
                                 /\ l.calls[j].fn \in {"connect", "update"}}}

\* The discovery session that took the last step is in progress and takes
\* the next step, a re-entry of discovery_auth_confirm.
DiscoveryReentry ==
    /\ last.op \in {"handle_discovery", "discovery_auth_confirm"}
    /\ last.flow \in FlowIds
    /\ flows[last.flow].status = "active"
    /\ flows[last.flow].source = "discovery"
    /\ last'.op = "discovery_auth_confirm"
    /\ last'.flow = last.flow

\* C27: a discovery session makes no connect attempt with a stored
\* credential value that it has seen rejected with AuthenticationError;
\* stated for two successive steps of the session: a re-entry of
\* discovery_auth_confirm does not try a stored value that the step before
\* saw rejected.
C27_StoredTriedOnce ==
    [][DiscoveryReentry => StoredRejected(last) \cap StoredTried(last') = {}]_vars

\* A passive discovery reports a hardware address that record e has as its
\* unique key, at another host than the one the record stores.
DiscoveredElsewhere(e) ==
    /\ last'.op = "handle_discovery"
    /\ flows[last'.flow].status = "none"
    /\ entries[e].state # "absent"
    /\ entries[e].unique_id = format_mac(last'.discovery.mac)
    /\ entries[e].host # last'.discovery.host

\* C28: a passive discovery of a configured hardware address at another host
\* than the one in its record aborts with already_configured, creates no
\* record, and leaves every record as it was except that this record's host
\* is now the discovered host.
C28_DiscoveryUpdatesHost ==
    [][\A e \in EntryIds : DiscoveredElsewhere(e) =>
          /\ last'.result = "abort"
          /\ last'.reason = "already_configured"
          /\ last'.created = 0
          /\ entries' = [entries EXCEPT ![e].host = last'.discovery.host]]_vars

\* C28 as amended: such a discovery aborts with already_in_progress and
\* changes no record when another session in progress has the same unique
\* id; otherwise it aborts with already_configured, creates no record, and
\* leaves every record as it was except that this record's host is now the
\* discovered host.
C28_DiscoveryUpdatesHostUnlessInProgress ==
    [][\A e \in EntryIds : DiscoveredElsewhere(e) =>
          /\ last'.result = "abort"
          /\ last'.created = 0
          /\ IF \E g \in FlowIds : /\ flows[g].status = "active"
                                    /\ flows[g].unique_id = entries[e].unique_id
             THEN /\ last'.reason = "already_in_progress"
                  /\ entries' = entries
             ELSE /\ last'.reason = "already_configured"
                  /\ entries' = [entries EXCEPT ![e].host = last'.discovery.host]]_vars

\* The record of device a, paired at h1, now has host h2 after a discovery
\* that was aborted.
C28_Witness ==
    /\ last.op = "handle_discovery"
    /\ last.reason = "already_configured"
    /\ last.discovery.host = "h2"
    /\ entries[1].unique_id = <<"a", "lc">>
    /\ entries[1].host = "h2"

\* The steps that assert self._discovered_device is not None on entry.
AssertingSteps ==
    {"discovery_auth_confirm", "discovery_confirm", "pick_device_auth_confirm"}

\* C29: no step fails an assertion, and a flow that waits at
\* discovery_auth_confirm, discovery_confirm or pick_device_auth_confirm,
\* to be entered again with the user's input, has a current device.
C29_DeviceAsserted ==
    /\ last.error # "AssertionError"
    /\ \A f \in FlowIds :
          (flows[f].status = "active" /\ flows[f].step \in AssertingSteps)
              => flows[f].device # NoDev

\* A discovery whose update was rejected with AuthenticationError entered
\* discovery_auth_confirm with the device it had reached.
C29_Witness ==
    /\ last.op = "handle_discovery"
    /\ last.step = "discovery_auth_confirm"
    /\ Len(last.calls) = 2
    /\ last.calls[2].fn = "update"
    /\ last.calls[2].out = "auth"
    /\ flows[last.flow].device = DeviceAt(last.discovery.host)

\* The pairs of sessions in progress that have the same host in their
\* context.
SameHost(fl) ==
    {p \in FlowIds \X FlowIds :
        /\ p[1] # p[2]
        /\ fl[p[1]].status = "active"
        /\ fl[p[2]].status = "active"
        /\ fl[p[1]].host # NoHost
        /\ fl[p[1]].host = fl[p[2]].host}

\* C30: no two sessions in progress have the same host in their context.
C30_OneSessionPerHost == SameHost(flows) = {}

\* C30 as amended: no two sessions started by passive discovery are in
\* progress for the same host; a passive discovery of a host that a session
\* in progress has in its context aborts; and two sessions come to have the
\* same host only by an explicit host entry, which scans no session.
C30_OneDiscoveryPerHost ==
    /\ [](\A p \in SameHost(flows) :
            flows[p[1]].source # "discovery" \/ flows[p[2]].source # "discovery")
    /\ [][(/\ last'.op = "handle_discovery"
           /\ flows[last'.flow].status = "none"
           /\ \E g \in FlowIds : /\ flows[g].status = "active"
                                  /\ flows[g].host = last'.discovery.host) =>
              /\ last'.result = "abort"
              /\ last'.reason \in {"already_in_progress", "already_configured"}
              /\ flows'[last'.flow] = NoFlow]_vars
    /\ [][~(SameHost(flows') \subseteq SameHost(flows)) =>
              /\ last'.op = "user"
              /\ flows'[last'.flow].source = "user"]_vars

\* A passive discovery was aborted because a session started by explicit
\* host entry, for another hardware address, has the discovered host in its
\* context.
C30_Witness ==
    /\ last.op = "handle_discovery"
    /\ last.reason = "already_in_progress"
    /\ \E g \in FlowIds :
          /\ flows[g].status = "active"
          /\ flows[g].source = "user"
          /\ flows[g].host = last.discovery.host
          /\ flows[g].unique_id # format_mac(last.discovery.mac)

\* ---------------------------------------------------- runtime table, store
\* C31: every coordinator in the runtime table wraps a device whose
\* connection has not been closed.
C31_PublishedNotClosed ==
    \A e \in EntryIds : coord[e].present => ~coord[e].closed

\* C32: while a record exists the stored credentials stay available: a step
\* empties the store only if it takes the last record away, and an unload
\* of an entry, whose record stays, leaves to the setup that follows the
\* credentials that were stored before it.
C32_CredentialsSurviveReload ==
    /\ [][(store # NoStorage /\ store' = NoStorage) =>
              (CurrentEntries # {} /\ CurrentEntries' = {})]_vars
    /\ [][(/\ last'.op = "unload_entry"
           /\ entries[last'.entry].state = "loaded"
           /\ entries'[last'.entry].state # "absent") =>
              get_stored_credentials(store') = get_stored_credentials(store)]_vars

====
